---- MODULE Spec2Model ----
(***************************************************************************)
(* K11 OMNI server: the structured logger (services/logger.js, the second  *)
(* half of src/server.js) and the SSE log stream of routes/system.js       *)
(* (src/unnamed/part_000).                                                 *)
(*                                                                         *)
(* Node runs every handler to completion on one thread, so each handler    *)
(* (record, GET /stream, a keepalive tick, the 'close' listener) is one    *)
(* atomic action.  Whether a res.write() throws is decided by the          *)
(* environment: every action that writes draws the set of sinks whose      *)
(* write throws during that handler run.                                   *)
(*                                                                         *)
(* Spec      : the stream route and the logger together.                   *)
(* SpecLog   : the logger alone, record() calls of all five levels.        *)
(* SpecIdem  : Spec plus repeated runs of the 'close' listener.            *)
(* SpecEmit  : the logger with further 'log' listeners, which may throw.   *)
(* SpecDisk  : the logger and the asynchronous operations on its file.     *)
(* SpecQuery : the logger and GET /api/system/logs.                        *)
(* SpecTrack : the request tracker (middleware/request-tracker.js).        *)
(* SpecMean  : the tracker's running mean over longer latency sequences.   *)
(* SpecRoutes: the tracker's per-route counters and getStats().            *)
(* SpecHttp  : requests in flight through the tracker, 'finish' and        *)
(*             'close' of their responses.                                 *)
(* SpecAi    : the supervisor (services/ai-supervisor.js) and the outcomes *)
(*             of its Groq calls.                                          *)
(* SpecAuth  : the token check (middleware/auth.js) in front of the routes.*)
(* SpecStore : the dataset store (src/unnamed/part_002), its files and     *)
(*             the clock.                                                  *)
(* SpecUpdate: updateItem calls of the dataset store and their awaits.     *)
(* SpecAnalyzeLogs: the logger and POST /api/ai/analyze-logs.              *)
(* SpecPost  : the logger and POST /api/system/log.                        *)
(***************************************************************************)
EXTENDS Integers, Sequences, FiniteSets, TLC

\* ---------------------------------------------------------------- bounds
\* LOG_MAX_LINES: ring capacity (2000 unless set in the environment).
MAX_LINES == 3
\* limit of the replay block of GET /stream (50 in the source), scaled with
\* MAX_LINES so that buffers both shorter and longer than it occur.
RECENT_LIMIT == 2
\* number of _write calls explored
MaxRecords == 4
\* number of 'finish' handler runs explored
MaxCompletions == 4
\* length of the latency sequences explored for the running mean
MaxMeanCompletions == 6
\* length of topRoutes (10 in the source), scaled so that there are more
\* route keys than it
TOP_ROUTES == 2
\* length of the analysis history (50 in the source)
HISTORY_MAX == 2
\* length of the list getHistory returns (20 in the source), scaled so that
\* the history can be longer than it
HISTORY_SHOWN == 1
\* limit of the getLogs call of POST /api/ai/analyze-logs (100 in the
\* source), scaled so that the buffer can hold older entries
ANALYZE_LIMIT == 2
\* number of entries analyzeLogs sends for diagnosis (20 in the source)
CRITICAL_SHOWN == 1
\* CACHE_TTL_MS (30 s in the source), in ticks of the clock
CACHE_TTL_MS == 2
\* the last tick of the clock explored
MaxClock == 3
\* number of get and set calls explored (each call writes one log record)
MaxStoreCalls == 2
\* number of updateItem calls explored
NumCalls == 2
Calls == 1..NumCalls
\* number of distinct SSE connections (res objects)
NumClients == 2
\* keepalive frames explored, over all connections
MaxPings == 1

Clients == 1..NumClients
\* number of HTTP requests explored by the specification of the middleware
NumRequests == 3
Requests == 1..NumRequests

\* ------------------------------------------------------------ data model
Levels == {"debug", "info", "warn", "error", "critical"}

\* `undefined` for an absent getLogs filter
NoFilter == "undefined"

NoEntry == [id |-> 0, level |-> "none", module |-> "none"]

\* the entry built by _write; id stands for `${Date.now()}-${random}`: it is
\* the ordinal of the _write call, unique and increasing with creation time
NewEntry(n, level, module) == [id |-> n, level |-> level, module |-> module]

\* the 'log' listeners a component other than the stream route may add
ExtraListeners == {"L1", "L2"}

\* no getLogs call made yet
NoReply == [level |-> "none", module |-> "none", limit |-> -1, logs |-> <<>>]

\* SSE frames written to a response
\* no getStats() call of the tracker was made yet
NoSnap ==
    [taken |-> FALSE,
     stats |-> [total |-> 0, ok |-> 0, errors4xx |-> 0, errors5xx |-> 0,
                slow |-> 0, avgLatencyMs |-> 0],
     byRoute |-> "none", topRoutes |-> <<>>]

\* null or undefined where a health score is expected
NoScore == -1

\* no call of the supervisor has returned yet
\* a field the body of a request does not have
Undefined == "undefined"
\* POST /api/system/log was not called yet
NoPost ==
    [level |-> Undefined, message |-> Undefined, status |-> 0, before |-> 0,
     after |-> 0]

\* POST /api/ai/analyze-logs was not called yet
NoLogsAnswer == [status |-> 0, body |-> "none", found |-> 0, logsAnalyzed |-> 0]

NoAiResult ==
    [call |-> "none", raised |-> FALSE, error |-> FALSE, success |-> FALSE,
     status |-> "none", score |-> NoScore]

\* no request has gone through authMiddleware yet
NoAuthReply == [path |-> <<>>, provided |-> "", status |-> 0, handler |-> "none"]

\* a dataset name or a file name is the sequence of the pieces of its text:
\* "extra.json" is <extra, .json>
Names == { <<"produtos">>, <<"extra">>, <<"extra", ".json">> }
Filenames == { <<"produtos", ".json">>, <<"extra", ".json">>, <<"extra", ".json", ".json">> }

\* what a file of DATA_DIR holds: nothing (no such file), text that is not
\* JSON, or the JSON text of an array
Missing == "missing"
Invalid == "invalid"
Arrays == {"A", "B"}
Empty == "[]"

NoCacheEntry == [has |-> FALSE, data |-> Empty, ts |-> 0]
NoDsReply ==
    [op |-> "none", name |-> <<>>, bust |-> FALSE, result |-> Empty,
     readDisk |-> FALSE, age |-> -1]
NoSet == [name |-> <<>>, data |-> Empty]

\* the arrays with items of id 1 and 2, by the ids of the items that carry
\* the patch of an updateItem call: "A" and "B" hold no patched item
WithItems == {"A", "A1", "A2", "A12"}
NoCall ==
    [pc |-> "idle", name |-> <<>>, id |-> 0, data |-> Empty, wrote |-> FALSE,
     result |-> "none", during |-> {}]

ConnectedMsg == [type |-> "connected", entry |-> NoEntry]
LogMsg(entry) == [type |-> "log", entry |-> entry]
PingMsg == [type |-> "ping", entry |-> NoEntry]

\* ------------------------------------------------------------- variables
VARIABLES
    buffer,        \* K11Logger._buffer
    stats,         \* K11Logger._stats
    log,           \* history: every entry ever built by _write, in call order
    sseClients,    \* _sseClients, a JS Set: members in insertion order
    keepalive,     \* responses whose setInterval timer is active
    stream,        \* per response: the frames res.write() accepted
    cstate,        \* per response: position of its connection
    subscribedAt,  \* history: Len(log) when the response was added to the set
    pending,       \* fs operations on LOG_FILE issued and not yet completed
    file,          \* the lines of LOG_FILE, one entry each
    reqStats,      \* request-tracker.js: stats, without byRoute and startTime
    byRoute,       \* request-tracker.js: stats.byRoute
    completions,   \* history: the requests whose 'finish' handler has run
    named,         \* history: the route in the message of each REQUEST entry
    snap,          \* the object the last requestTracker.getStats() call returned
    observed,      \* history: the tracker's stats as each logger call of the
                   \* finish handler, hence every 'log' listener, found them
    rstate,        \* per HTTP request: position of its response
    rkind,         \* per HTTP request: how the middleware chain answers it
    seen,          \* history: per HTTP request, runs of the tracker's listener
    posted,        \* the last POST /api/system/log: its body, its answer and,
                   \* as history, the entries recorded before and after it
    analysisHistory,   \* ai-supervisor.js: _analysisHistory
    lastHealthScore,   \* ai-supervisor.js: _lastHealthScore
    aiResult,      \* what the last analyzeHealth or chat call returned
    analyses,      \* history: every analysis a successful analyzeHealth built
    logsAnswer,    \* the last answer of POST /api/ai/analyze-logs
    apiToken,      \* process.env.API_SECRET_TOKEN ("" when not set)
    authReply,     \* the last request authMiddleware saw and how it was answered
    cache,         \* DataStore._cache: per file name, the entry { data, ts }
    disk,          \* the files of DATA_DIR: per file name, what the file holds
    now,           \* Date.now(), in ticks
    dsCounts,      \* DataStore._reads, _writes, _errors
    dsReply,       \* the last get or set call and what it returned
    lastSet,       \* history: the last set() that returned true, while no
                   \* later write or fault touched the disk
    upd,           \* per updateItem call: where it stands, its locals and,
                   \* as history, the calls in progress when it started
    queue,         \* the microtask queue: the calls whose await is to resume
    held,          \* per file name: the updateItem call whose local `data` is
                   \* the array object of the cache entry (0: none)
    listeners,     \* the 'log' listeners of the logger, in registration order
    notified,      \* history: per added listener, the entries it was called with
    raised,        \* whether the last _write call threw to its caller
    reply          \* the last getLogs call and what it returned

streamVars == <<sseClients, keepalive, stream, cstate, subscribedAt>>
diskVars == <<pending, file>>
trackerVars == <<reqStats, byRoute, completions, named, snap, observed>>
httpVars == <<rstate, rkind, seen, posted>>
aiVars == <<analysisHistory, lastHealthScore, aiResult, analyses, logsAnswer>>
authVars == <<apiToken, authReply>>
updVars == <<upd, queue, held>>
dsVars == <<cache, disk, now, dsCounts, dsReply, lastSet, updVars>>
svcVars == <<aiVars, authVars, dsVars>>
emitVars == <<listeners, notified, raised>>

vars == <<buffer, stats, log, streamVars, diskVars, trackerVars, emitVars, reply,
          httpVars, svcVars>>

\* ------------------------------------------------------- sequence helpers
Min(a, b) == IF a < b THEN a ELSE b
Max(a, b) == IF a > b THEN a ELSE b

Range(s) == {s[i] : i \in 1..Len(s)}

\* Array.prototype.reverse
Reverse(s) == [i \in 1..Len(s) |-> s[Len(s) + 1 - i]]

\* Array.prototype.slice(start) with one argument
Slice(s, start) ==
    LET from == IF start < 0 THEN Max(Len(s) + start, 0) ELSE Min(start, Len(s))
    IN  SubSeq(s, from + 1, Len(s))

\* Array.prototype.filter
RECURSIVE Filter(_, _, _)
Filter(s, field, value) ==
    IF s = <<>> THEN <<>>
    ELSE IF Head(s)[field] = value
         THEN <<Head(s)>> \o Filter(Tail(s), field, value)
         ELSE Filter(Tail(s), field, value)

\* Set.prototype.has / add / delete on the insertion-ordered set
SetHas(set, x) == x \in Range(set)
SetAdd(set, x) == IF SetHas(set, x) THEN set ELSE Append(set, x)
SetDelete(set, x) == SelectSeq(set, LAMBDA y : y # x)

\* ---------------------------------------------------------------- logger
\* variant: the ring evicts at length >= MAX_LINES
BufferPushEarlyShift(buf, entry) ==
    LET pushed == Append(buf, entry)
    IN  IF Len(pushed) >= MAX_LINES THEN Tail(pushed) ELSE pushed

\* this._buffer.push(entry); if (length > MAX_LINES) shift()
BufferPush(buf, entry) ==
    LET pushed == Append(buf, entry)
    IN  IF Len(pushed) > MAX_LINES THEN Tail(pushed) ELSE pushed

\* variant: the counter is restarted instead of incremented
StatsBumpRestart(st, level) == [st EXCEPT ![level] = 1]

\* this._stats[level] = (this._stats[level] || 0) + 1
StatsBump(st, level) ==
    IF level \in DOMAIN st THEN [st EXCEPT ![level] = @ + 1]
    ELSE st @@ (level :> 1)

\* K11Logger.getLogs({level, module, limit})
getLogs(buf, level, module, limit) ==
    LET e1 == IF level # NoFilter THEN Filter(buf, "level", level) ELSE buf
        e2 == IF module # NoFilter THEN Filter(e1, "module", module) ELSE e1
    IN  Reverse(Slice(e2, 0 - limit))

\* Object.values(this._stats).reduce((a, b) => a + b, 0)
RECURSIVE SumOver(_, _)
SumOver(f, keys) ==
    IF keys = {} THEN 0
    ELSE LET k == CHOOSE x \in keys : TRUE
         IN  f[k] + SumOver(f, keys \ {k})

\* K11Logger.getStats (uptimeMs left out: no claim reads the clock)
getStats ==
    [counts |-> stats, total |-> SumOver(stats, DOMAIN stats), bufferSize |-> Len(buffer)]

\* --------------------------------------------------------------- fan-out
\* variant: index-based iteration that skips the member after a deleted one
RECURSIVE forEachWriteSkip(_, _, _, _, _)
forEachWriteSkip(todo, set, strm, msg, F) ==
    IF todo = <<>> THEN [clients |-> set, stream |-> strm]
    ELSE LET res == Head(todo)
         IN  IF res \in F
             THEN forEachWriteSkip(IF Len(todo) > 1 THEN Tail(Tail(todo)) ELSE <<>>,
                                   SetDelete(set, res), strm, msg, F)
             ELSE forEachWriteSkip(Tail(todo), set,
                                   [strm EXCEPT ![res] = Append(@, msg)], msg, F)

\* variant: the try/catch encloses the whole loop, a throw ends the fan-out
RECURSIVE forEachWriteAbort(_, _, _, _, _)
forEachWriteAbort(todo, set, strm, msg, F) ==
    IF todo = <<>> THEN [clients |-> set, stream |-> strm]
    ELSE LET res == Head(todo)
         IN  IF res \in F
             THEN [clients |-> SetDelete(set, res), stream |-> strm]
             ELSE forEachWriteAbort(Tail(todo), set,
                                    [strm EXCEPT ![res] = Append(@, msg)], msg, F)

\* variant: the catch swallows the error and keeps the member
RECURSIVE forEachWriteKeep(_, _, _, _, _)
forEachWriteKeep(todo, set, strm, msg, F) ==
    IF todo = <<>> THEN [clients |-> set, stream |-> strm]
    ELSE LET res == Head(todo)
         IN  IF res \in F
             THEN forEachWriteKeep(Tail(todo), set, strm, msg, F)
             ELSE forEachWriteKeep(Tail(todo), set,
                                   [strm EXCEPT ![res] = Append(@, msg)], msg, F)

\* _sseClients.forEach(res => { try { res.write(msg) } catch { delete(res) } })
\* todo: members not yet visited; F: sinks whose write throws in this run
RECURSIVE forEachWrite(_, _, _, _, _)
forEachWrite(todo, set, strm, msg, F) ==
    IF todo = <<>> THEN [clients |-> set, stream |-> strm]
    ELSE LET res == Head(todo)
         IN  IF res \in F
             THEN forEachWrite(Tail(todo), SetDelete(set, res), strm, msg, F)
             ELSE forEachWrite(Tail(todo), set,
                               [strm EXCEPT ![res] = Append(@, msg)], msg, F)

\* logger.on('log', entry => ...)
onLog(set, strm, entry, F) == forEachWrite(set, set, strm, LogMsg(entry), F)

\* operations on LOG_FILE handed to the fs thread pool
AppendOp(entry) == [op |-> "append", entry |-> entry]
TruncateOp == [op |-> "truncate", entry |-> NoEntry]

\* fs.appendFile(LOG_FILE, line, () => {}): issued, not awaited
appendFile(ops, entry) == Append(ops, AppendOp(entry))

\* K11Logger._write(level, module, ...) called while the operations in flight
\* are `ops`, the set is `set` and the streams are `strm`: counter, ring, file
\* append, emit('log') to the stream listener, the only listener the server
\* registers
WriteTo(ops, level, module, set, strm, F) ==
    LET entry == NewEntry(Len(log) + 1, level, module)
        out   == onLog(set, strm, entry, F)
    IN  /\ stats' = StatsBump(stats, level)
        /\ buffer' = BufferPush(buffer, entry)
        /\ log' = Append(log, entry)
        /\ pending' = appendFile(ops, entry)
        /\ sseClients' = out.clients
        /\ stream' = out.stream

\* _write called by a handler that issued no file operation of its own
Write(level, module, set, strm, F) == WriteTo(pending, level, module, set, strm, F)

\* ------------------------------------------------------------------ Init
Init ==
    /\ buffer = <<>>
    /\ stats = [l \in Levels |-> 0]
    /\ log = <<>>
    /\ sseClients = <<>>
    /\ keepalive = {}
    /\ stream = [c \in Clients |-> <<>>]
    /\ cstate = [c \in Clients |-> "none"]
    /\ subscribedAt = [c \in Clients |-> 0]
    /\ pending = <<>>
    /\ file = <<>>
    /\ reqStats = [total |-> 0, ok |-> 0, errors4xx |-> 0, errors5xx |-> 0,
                   slow |-> 0, avgLatencyMs |-> 0]
    /\ byRoute = <<>>
    /\ completions = <<>>
    /\ named = <<>>
    /\ snap = NoSnap
    /\ observed = <<>>
    /\ rstate = [q \in Requests |-> "none"]
    /\ rkind = [q \in Requests |-> "none"]
    /\ seen = [q \in Requests |-> 0]
    /\ posted = NoPost
    /\ analysisHistory = <<>>
    /\ lastHealthScore = NoScore
    /\ aiResult = NoAiResult
    /\ analyses = <<>>
    /\ logsAnswer = NoLogsAnswer
    /\ apiToken = ""
    /\ authReply = NoAuthReply
    /\ cache = [f \in Filenames |-> NoCacheEntry]
    /\ disk = [f \in Filenames |-> IF f = <<"extra", ".json", ".json">>
                                    THEN Missing ELSE "A"]
    /\ now = 0
    /\ dsCounts = [reads |-> 0, writes |-> 0, errors |-> 0]
    /\ dsReply = NoDsReply
    /\ lastSet = NoSet
    /\ upd = [c \in Calls |-> NoCall]
    /\ queue = <<>>
    /\ held = [f \in Filenames |-> 0]
    /\ listeners = <<"sse">>
    /\ notified = [l \in ExtraListeners |-> <<>>]
    /\ raised = FALSE
    /\ reply = NoReply

\* what the actions of the logger and of the stream route leave alone
restVars == <<file, trackerVars, emitVars, reply, httpVars, svcVars>>

\* --------------------------------------------------------------- actions
\* any caller of logger.debug/info/warn/error/critical outside the stream
\* route (POST /api/system/log, morgan, auth, boot, ...)
Record(level, module) ==
    /\ Len(log) < MaxRecords
    /\ \E F \in SUBSET Range(sseClients) :
          Write(level, module, sseClients, stream, F)
    /\ UNCHANGED <<keepalive, cstate, subscribedAt, restVars>>

\* connections are numbered in the order their GET /stream requests arrive
NextToArrive(c) ==
    /\ cstate[c] = "none"
    /\ \A d \in Clients : d < c => cstate[d] # "none"

\* variant: the replay block is written as getLogs returns it (newest first)
HandshakeNewestFirst(buf) ==
    LET recent == getLogs(buf, NoFilter, NoFilter, RECENT_LIMIT)
    IN  <<ConnectedMsg>> \o [i \in 1..Len(recent) |-> LogMsg(recent[i])]

\* the frames GET /stream writes before it registers the response
Handshake(buf) ==
    LET recent == Reverse(getLogs(buf, NoFilter, NoFilter, RECENT_LIMIT))
    IN  <<ConnectedMsg>> \o [i \in 1..Len(recent) |-> LogMsg(recent[i])]

\* variant: the connection entry is logged before _sseClients.add(res)
ConnectLogBeforeAdd(c) ==
    /\ NextToArrive(c)
    /\ Len(log) < MaxRecords
    /\ LET strm == [stream EXCEPT ![c] = @ \o Handshake(buffer)]
       IN  \E F \in SUBSET Range(sseClients) :
              /\ stats' = StatsBump(stats, "info")
              /\ buffer' = BufferPush(buffer, NewEntry(Len(log) + 1, "info", "SSE"))
              /\ log' = Append(log, NewEntry(Len(log) + 1, "info", "SSE"))
              /\ pending' = appendFile(pending, NewEntry(Len(log) + 1, "info", "SSE"))
              /\ sseClients' =
                    SetAdd(onLog(sseClients, strm, NewEntry(Len(log) + 1, "info", "SSE"), F).clients, c)
              /\ stream' = onLog(sseClients, strm, NewEntry(Len(log) + 1, "info", "SSE"), F).stream
              /\ keepalive' = keepalive \cup {c}
              /\ cstate' = [cstate EXCEPT ![c] = "open"]
              /\ subscribedAt' = [subscribedAt EXCEPT ![c] = Len(log)]
              /\ UNCHANGED restVars

\* router.get('/stream'): every write of the handshake succeeds
Connect(c) ==
    /\ NextToArrive(c)
    /\ Len(log) < MaxRecords
    /\ LET set == SetAdd(sseClients, c)
           strm == [stream EXCEPT ![c] = @ \o Handshake(buffer)]
       IN  \E F \in SUBSET Range(set) :
              /\ Write("info", "SSE", set, strm, F)
              /\ keepalive' = keepalive \cup {c}
              /\ cstate' = [cstate EXCEPT ![c] = "open"]
              /\ subscribedAt' = [subscribedAt EXCEPT ![c] = Len(log)]
              /\ UNCHANGED restVars

\* router.get('/stream') when a handshake write throws after k frames: the
\* handler is left before _sseClients.add; Express hands the exception to
\* the global error handler, which records a critical entry
ConnectAbort(c) ==
    /\ NextToArrive(c)
    /\ Len(log) < MaxRecords
    /\ LET hs == Handshake(buffer)
       IN  \E k \in 0..(Len(hs) - 1) :
           \E F \in SUBSET Range(sseClients) :
              /\ Write("critical", "SERVER", sseClients,
                       [stream EXCEPT ![c] = @ \o SubSeq(hs, 1, k)], F)
              /\ cstate' = [cstate EXCEPT ![c] = "aborted"]
              /\ UNCHANGED <<keepalive, subscribedAt, restVars>>

NumPings(s) == Cardinality({i \in 1..Len(s) : s[i].type = "ping"})

RECURSIVE TotalPings(_)
TotalPings(cs) ==
    IF cs = {} THEN 0
    ELSE LET c == CHOOSE x \in cs : TRUE
         IN  NumPings(stream[c]) + TotalPings(cs \ {c})

\* the setInterval callback: try { res.write(': ping') } catch { clearInterval }
Heartbeat(c) ==
    /\ c \in keepalive
    /\ TotalPings(Clients) < MaxPings
    /\ \/ /\ stream' = [stream EXCEPT ![c] = Append(@, PingMsg)]
          /\ UNCHANGED keepalive
       \/ /\ keepalive' = keepalive \ {c}
          /\ UNCHANGED stream
    /\ UNCHANGED <<buffer, stats, log, sseClients, cstate, subscribedAt>>
    /\ UNCHANGED <<pending, restVars>>

\* variant: the listener toggles membership instead of deleting
CloseHandlerToggle(c) ==
    /\ Len(log) < MaxRecords
    /\ LET set == IF SetHas(sseClients, c) THEN SetDelete(sseClients, c)
                  ELSE SetAdd(sseClients, c)
       IN  \E F \in SUBSET Range(set) :
              Write("debug", "SSE", set, stream, F)
    /\ keepalive' = keepalive \ {c}
    /\ cstate' = [cstate EXCEPT ![c] = "closed"]
    /\ UNCHANGED <<subscribedAt, restVars>>

\* req.on('close', ...): clearInterval, _sseClients.delete, logger.debug
CloseHandler(c) ==
    /\ Len(log) < MaxRecords
    /\ LET set == SetDelete(sseClients, c)
       IN  \E F \in SUBSET Range(set) :
              Write("debug", "SSE", set, stream, F)
    /\ keepalive' = keepalive \ {c}
    /\ cstate' = [cstate EXCEPT ![c] = "closed"]
    /\ UNCHANGED <<subscribedAt, restVars>>

\* the peer closes the connection: Node emits 'close' once
Close(c) ==
    /\ cstate[c] = "open"
    /\ CloseHandler(c)

\* the listener is run once more for a connection it has already closed
CloseAgain(c) ==
    /\ cstate[c] = "closed"
    /\ CloseHandler(c)

\* module tag of the callers outside the stream route
Modules == {"CORE"}
\* level of the entries recorded while clients stream; the stream route itself
\* adds info, debug and critical entries
RecordLevels == {"error"}

Next ==
    \/ \E l \in RecordLevels, m \in Modules : Record(l, m)
    \/ \E c \in Clients : Connect(c)
    \/ \E c \in Clients : ConnectAbort(c)
    \/ \E c \in Clients : Heartbeat(c)
    \/ \E c \in Clients : Close(c)

Spec == Init /\ [][Next]_vars

\* the logger alone: record() calls of every level, no stream client
NextLog == \E l \in Levels, m \in Modules : Record(l, m)

SpecLog == Init /\ [][NextLog]_vars

\* ------------------------------------------------------------- log file
\* pending without its i-th operation
DropOp(ops, i) == SubSeq(ops, 1, i - 1) \o SubSeq(ops, i + 1, Len(ops))

\* variant: a failed append takes the entry back out of the ring
AppendDoneRollback(i) ==
    /\ i \in 1..Len(pending)
    /\ pending[i].op = "append"
    /\ pending' = DropOp(pending, i)
    /\ \/ /\ file' = Append(file, pending[i].entry)
          /\ UNCHANGED buffer
       \/ /\ buffer' = SelectSeq(buffer, LAMBDA e : e # pending[i].entry)
          /\ UNCHANGED file
    /\ UNCHANGED <<stats, log, streamVars, trackerVars, emitVars, reply,
                   httpVars, svcVars>>

\* an fs.appendFile completes, in any order the thread pool gives: the line
\* is in the file, or the append failed and its callback () => {} drops the
\* error
AppendDone(i) ==
    /\ i \in 1..Len(pending)
    /\ pending[i].op = "append"
    /\ pending' = DropOp(pending, i)
    /\ \/ file' = Append(file, pending[i].entry)
       \/ UNCHANGED file
    /\ UNCHANGED <<buffer, stats, log, streamVars, trackerVars, emitVars, reply,
                   httpVars, svcVars>>

\* the fs.writeFile(LOG_FILE, '') of clearFile completes: the file is empty,
\* or the write failed and cb(err) is called
TruncateDone(i) ==
    /\ i \in 1..Len(pending)
    /\ pending[i].op = "truncate"
    /\ pending' = DropOp(pending, i)
    /\ \/ file' = <<>>
       \/ UNCHANGED file
    /\ UNCHANGED <<buffer, stats, log, streamVars, trackerVars, emitVars, reply,
                   httpVars, svcVars>>

\* variant: clearFile empties the ring as well
ClearFileAndBuffer ==
    /\ Len(log) < MaxRecords
    /\ stats' = StatsBump(stats, "info")
    /\ buffer' = <<NewEntry(Len(log) + 1, "info", "LOGGER")>>
    /\ log' = Append(log, NewEntry(Len(log) + 1, "info", "LOGGER"))
    /\ pending' = appendFile(Append(pending, TruncateOp),
                             NewEntry(Len(log) + 1, "info", "LOGGER"))
    /\ UNCHANGED <<streamVars, restVars>>

\* K11Logger.clearFile (DELETE /api/system/logs): fs.writeFile(LOG_FILE, '')
\* is issued, then this.info('LOGGER', ...)
ClearFile ==
    /\ Len(log) < MaxRecords
    /\ \E F \in SUBSET Range(sseClients) :
          WriteTo(Append(pending, TruncateOp), "info", "LOGGER", sseClients, stream, F)
    /\ UNCHANGED <<keepalive, cstate, subscribedAt, restVars>>

NextDisk ==
    \/ \E l \in RecordLevels, m \in Modules : Record(l, m)
    \/ ClearFile
    \/ \E i \in 1..MaxRecords + 1 : AppendDone(i)
    \/ \E i \in 1..MaxRecords + 1 : TruncateDone(i)

\* the logger and its log file
SpecDisk == Init /\ [][NextDisk]_vars

\* ------------------------------------------------------ request tracker
\* elapsedMs is a number of nanoseconds divided by 1_000_000, not a whole
\* number of milliseconds: the model measures it in ticks of half a millisecond
TICKS_PER_MS == 2

SLOW_THRESHOLD_MS == 500

\* variant: Math.floor
MathFloor(num, den) == num \div den

\* variant: Math.ceil
MathCeil(num, den) == (num + den - 1) \div den

\* Math.round(num / den) for num >= 0, den > 0: the nearest integer, a half
\* rounded up
MathRound(num, den) == (2 * num + den) \div (2 * den)

\* variant: the 4xx bucket starts above 400
BucketAbove(status) ==
    IF status >= 500 THEN "errors5xx"
    ELSE IF status > 400 THEN "errors4xx"
    ELSE "ok"

\* if (status >= 500) errors5xx++; else if (status >= 400) errors4xx++; else ok++
Bucket(status) ==
    IF status >= 500 THEN "errors5xx"
    ELSE IF status >= 400 THEN "errors4xx"
    ELSE "ok"

\* variant: a request of exactly the threshold is slow
IsSlowFromThreshold(elapsed) == elapsed >= SLOW_THRESHOLD_MS * TICKS_PER_MS

\* elapsedMs > SLOW_THRESHOLD_MS
IsSlow(elapsed) == elapsed > SLOW_THRESHOLD_MS * TICKS_PER_MS

\* variant: the entry of the route is created anew on every request
byRouteBumpFresh(br, route, status, elapsed) ==
    LET known == \E i \in 1..Len(br) : br[i].route = route
        br1   == IF known THEN br
                 ELSE Append(br, [route |-> route, count |-> 0, totalMs |-> 0, errors |-> 0])
    IN  [i \in 1..Len(br1) |->
            IF br1[i].route = route
            THEN [route   |-> route,
                  count   |-> 1,
                  totalMs |-> elapsed,
                  errors  |-> IF status >= 400 THEN 1 ELSE 0]
            ELSE br1[i]]

\* variant: only server errors count as errors of the route
byRouteBumpServerErrors(br, route, status, elapsed) ==
    LET known == \E i \in 1..Len(br) : br[i].route = route
        br1   == IF known THEN br
                 ELSE Append(br, [route |-> route, count |-> 0, totalMs |-> 0, errors |-> 0])
    IN  [i \in 1..Len(br1) |->
            IF br1[i].route = route
            THEN [route   |-> route,
                  count   |-> br1[i].count + 1,
                  totalMs |-> br1[i].totalMs + elapsed,
                  errors  |-> br1[i].errors + (IF status >= 500 THEN 1 ELSE 0)]
            ELSE br1[i]]

\* stats.byRoute[route], created on the first request of the route; the keys
\* of the object stay in insertion order
byRouteBump(br, route, status, elapsed) ==
    LET known == \E i \in 1..Len(br) : br[i].route = route
        br1   == IF known THEN br
                 ELSE Append(br, [route |-> route, count |-> 0, totalMs |-> 0, errors |-> 0])
    IN  [i \in 1..Len(br1) |->
            IF br1[i].route = route
            THEN [route   |-> route,
                  count   |-> br1[i].count + 1,
                  totalMs |-> br1[i].totalMs + elapsed,
                  errors  |-> br1[i].errors + (IF status >= 400 THEN 1 ELSE 0)]
            ELSE br1[i]]

\* logger.warn / logger.error('REQUEST', `...${route}`) of the finish handler
LogRequest(level, route) ==
    /\ \E F \in SUBSET Range(sseClients) :
          Write(level, "REQUEST", sseClients, stream, F)
    /\ named' = Append(named, [id |-> Len(log) + 1, route |-> route])
    /\ observed' = Append(observed, [stats |-> reqStats', byRoute |-> byRoute'])

\* variant: the handler logs after total++ and before the other updates
FinishLogEarly(route, status, elapsed) ==
    /\ reqStats' = [reqStats EXCEPT
                        !.total = @ + 1,
                        ![Bucket(status)] = @ + 1,
                        !.slow = IF IsSlow(elapsed) THEN @ + 1 ELSE @,
                        !.avgLatencyMs =
                            MathRound(@ * reqStats.total * TICKS_PER_MS + elapsed,
                                      (reqStats.total + 1) * TICKS_PER_MS)]
    /\ byRoute' = byRouteBump(byRoute, route, status, elapsed)
    /\ completions' = Append(completions,
                             [route |-> route, status |-> status, elapsed |-> elapsed])
    /\ IF IsSlow(elapsed) \/ status >= 500
       THEN /\ \E F \in SUBSET Range(sseClients) :
                  Write(IF IsSlow(elapsed) THEN "warn" ELSE "error", "REQUEST",
                        sseClients, stream, F)
            /\ named' = Append(named, [id |-> Len(log) + 1, route |-> route])
            /\ observed' = Append(observed,
                                  [stats   |-> [reqStats EXCEPT !.total = @ + 1],
                                   byRoute |-> byRoute])
       ELSE UNCHANGED <<buffer, stats, log, pending, sseClients, stream, named,
                        observed>>
    /\ UNCHANGED <<keepalive, cstate, subscribedAt, file, emitVars, reply, snap, svcVars>>

\* res.on('finish') of requestTracker for a response of this route and
\* status, elapsed ticks after the request arrived
Finish(route, status, elapsed) ==
    /\ reqStats' = [reqStats EXCEPT
                        !.total = @ + 1,
                        ![Bucket(status)] = @ + 1,
                        !.slow = IF IsSlow(elapsed) THEN @ + 1 ELSE @,
                        !.avgLatencyMs =
                            MathRound(@ * reqStats.total * TICKS_PER_MS + elapsed,
                                      (reqStats.total + 1) * TICKS_PER_MS)]
    /\ byRoute' = byRouteBump(byRoute, route, status, elapsed)
    /\ completions' = Append(completions,
                             [route |-> route, status |-> status, elapsed |-> elapsed])
    /\ IF IsSlow(elapsed) THEN LogRequest("warn", route)
       ELSE IF status >= 500 THEN LogRequest("error", route)
       ELSE UNCHANGED <<buffer, stats, log, pending, sseClients, stream, named,
                        observed>>
    /\ UNCHANGED <<keepalive, cstate, subscribedAt, file, emitVars, reply, snap, svcVars>>

\* `${req.method} ${req.path}`
TrackRoutes == {"GET /api/data"}

\* the responses explored: status and elapsed ticks (100 ms, 200 ms, 50 ms,
\* 900 ms, 500 ms, 500.5 ms, 500 ms, 200 ms)
Samples ==
    { <<200, 200>>, <<200, 400>>, <<404, 100>>, <<500, 1800>>,
      <<400, 1000>>, <<399, 1001>>, <<500, 1000>>, <<499, 400>> }

Completion(route, status, elapsed) ==
    /\ reqStats.total < MaxCompletions
    /\ Len(log) < MaxRecords
    /\ Finish(route, status, elapsed)
    /\ UNCHANGED httpVars

NextTrack ==
    \E r \in TrackRoutes, x \in Samples : Completion(r, x[1], x[2])

\* the request tracker and the logger it writes to
SpecTrack == Init /\ [][NextTrack]_vars

\* latencies of 100.5 ms, 101.5 ms and 103 ms
MeanSamples == {201, 203, 206}

MeanCompletion(elapsed) ==
    /\ reqStats.total < MaxMeanCompletions
    /\ \E r \in TrackRoutes : Finish(r, 200, elapsed)
    /\ UNCHANGED httpVars

NextMean ==
    \E x \in MeanSamples : MeanCompletion(x)

\* the running mean of the tracker over sequences of fast requests
SpecMean == Init /\ [][NextMean]_vars

\* --------------------------------------------- tracker: routes, getStats
\* variant: before the entries of the same count
InsertByCountFirst(sorted, e) ==
    LET k == Cardinality({i \in 1..Len(sorted) : sorted[i].count > e.count})
    IN  SubSeq(sorted, 1, k) \o <<e>> \o SubSeq(sorted, k + 1, Len(sorted))

\* the place of e in a list sorted by (a, b) => b.count - a.count: after the
\* entries whose count is not smaller (Array.prototype.sort is stable)
InsertByCount(sorted, e) ==
    LET k == Cardinality({i \in 1..Len(sorted) : sorted[i].count >= e.count})
    IN  SubSeq(sorted, 1, k) \o <<e>> \o SubSeq(sorted, k + 1, Len(sorted))

\* Object.entries(stats.byRoute).sort((a, b) => b[1].count - a[1].count)
RECURSIVE sortByCount(_)
sortByCount(br) ==
    IF br = <<>> THEN <<>>
    ELSE InsertByCount(sortByCount(SubSeq(br, 1, Len(br) - 1)), br[Len(br)])

\* .slice(0, 10).map(([route, s]) => ({route, count, avgMs, errors}))
topRoutes(br) ==
    LET sorted == sortByCount(br)
    IN  [i \in 1..Min(TOP_ROUTES, Len(sorted)) |->
            [route  |-> sorted[i].route,
             count  |-> sorted[i].count,
             avgMs  |-> MathRound(sorted[i].totalMs, sorted[i].count * TICKS_PER_MS),
             errors |-> sorted[i].errors]]

\* requestTracker.getStats(): ({...stats, uptimeMs, topRoutes}); the spread
\* copies the counters and copies the reference to stats.byRoute, not the
\* object (uptimeMs left out: no claim reads the clock)
GetStats ==
    /\ snap' = [taken |-> TRUE, stats |-> reqStats, byRoute |-> "stats.byRoute",
                topRoutes |-> topRoutes(byRoute)]
    /\ UNCHANGED <<buffer, stats, log, streamVars, diskVars, emitVars, reply,
                   reqStats, byRoute, completions, named, observed, httpVars, svcVars>>

\* the object a reference held by a snapshot points to
Deref(ref) == IF ref = "stats.byRoute" THEN byRoute ELSE <<>>

\* route keys differing in a path segment or in the method only
Routes == {"GET /api/items/1", "GET /api/items/2", "POST /api/items/1"}

\* status and elapsed ticks (100.5 ms, 50 ms)
RouteSamples == { <<200, 201>>, <<400, 100>> }

NextRoutes ==
    \/ \E r \in Routes, x \in RouteSamples : Completion(r, x[1], x[2])
    \/ GetStats

\* the tracker over several route keys, and its snapshots
SpecRoutes == Init /\ [][NextRoutes]_vars

\* ------------------------------------------- tracker: requests in flight
\* how the rest of the middleware chain answers a request: a route handler
\* (res.json), the 401 of authMiddleware, the 404 handler, the global error
\* handler (500), or the SSE route, which never ends its response
Kinds ==
    [public       |-> [route |-> "GET /api/status", status |-> 200, elapsed |-> 201],
     unauthorized |-> [route |-> "GET /api/data/all", status |-> 401, elapsed |-> 100],
     notfound     |-> [route |-> "GET /nowhere", status |-> 404, elapsed |-> 100],
     failed       |-> [route |-> "GET /api/ai/health", status |-> 500, elapsed |-> 1001],
     stream       |-> [route |-> "GET /api/system/stream", status |-> 200, elapsed |-> 1001]]

\* what the response does when it is over: res.json ends it ('finish', then
\* 'close'); the SSE response is only ever closed by the peer ('close')
Ends(kind) == kind # "stream"

\* requests arrive in the order of their numbers
NextRequest(q) == \A p \in Requests : p < q => rstate[p] # "none"

\* requestTracker(req, res, next): res.on('finish', ...) and next()
Arrive(q, kind) ==
    /\ rstate[q] = "none"
    /\ NextRequest(q)
    /\ rstate' = [rstate EXCEPT ![q] = "open"]
    /\ rkind' = [rkind EXCEPT ![q] = kind]
    /\ UNCHANGED posted
    /\ UNCHANGED <<buffer, stats, log, streamVars, diskVars, trackerVars, emitVars,
                   reply, seen, svcVars>>

\* the event of the response the tracker listens to
TrackedEvent == "finish"

\* the response of request q emits 'finish': the listener of the tracker runs
ResFinish(q) ==
    /\ rstate[q] = "open"
    /\ Ends(rkind[q])
    /\ Len(log) < MaxRecords
    /\ rstate' = [rstate EXCEPT ![q] = "finished"]
    /\ IF TrackedEvent = "finish"
       THEN /\ Finish(Kinds[rkind[q]].route, Kinds[rkind[q]].status,
                      Kinds[rkind[q]].elapsed)
            /\ seen' = [seen EXCEPT ![q] = @ + 1]
       ELSE UNCHANGED <<buffer, stats, log, streamVars, diskVars, trackerVars,
                        emitVars, reply, seen, svcVars>>
    /\ UNCHANGED <<rkind, posted>>

\* the response of request q emits 'close': after 'finish', or when the peer
\* closes a response that never ended; the tracker has no listener for it
ResClose(q) ==
    /\ \/ rstate[q] = "finished"
       \/ rstate[q] = "open" /\ ~Ends(rkind[q])
    /\ rstate' = [rstate EXCEPT ![q] = "closed"]
    /\ IF TrackedEvent = "close"
       THEN /\ Finish(Kinds[rkind[q]].route, Kinds[rkind[q]].status,
                      Kinds[rkind[q]].elapsed)
            /\ seen' = [seen EXCEPT ![q] = @ + 1]
       ELSE UNCHANGED <<buffer, stats, log, streamVars, diskVars, trackerVars,
                        emitVars, reply, seen, svcVars>>
    /\ UNCHANGED <<rkind, posted>>

NextHttp ==
    \/ \E q \in Requests, k \in DOMAIN Kinds : Arrive(q, k)
    \/ \E q \in Requests : ResFinish(q)
    \/ \E q \in Requests : ResClose(q)

\* the tracker under requests that overlap and end in any order
SpecHttp == Init /\ [][NextHttp]_vars

\* ---------------------------------------------------------- supervisor
\* how a _callGroq promise settles.  It rejects without an API key, on a
\* timeout, on a network error, on a body that carries an error and on a
\* body that is not JSON; it resolves with the text of the model: text
\* without {...}, text whose {...} does not parse, or a JSON object, whose
\* score is a number or is missing
Rejections == {"nokey", "timeout", "network", "errorResponse", "badBody"}
Scores == {0, 85}
GroqOutcomes ==
    [kind : Rejections \cup {"noJson", "badJson"}, score : {NoScore}]
    \cup [kind : {"json"}, score : Scores \cup {NoScore}]

\* variant: _lastHealthScore || 50
OrFifty(score) == IF score = NoScore \/ score = 0 THEN 50 ELSE score

\* _lastHealthScore ?? 50
NullishFifty(score) == IF score = NoScore THEN 50 ELSE score

\* variant: the history is cut at its newest end
HistoryPushPop(h, a) ==
    LET pushed == Append(h, a)
    IN  IF Len(pushed) > HISTORY_MAX THEN SubSeq(pushed, 1, HISTORY_MAX) ELSE pushed

\* _analysisHistory.push(analysis); if (length > 50) shift()
HistoryPush(h, a) ==
    LET pushed == Append(h, a)
    IN  IF Len(pushed) > HISTORY_MAX THEN Tail(pushed) ELSE pushed

\* analyzeHealth(snapshot), its _callGroq promise settling as o; the module
\* state is read and written after the await only
AnalyzeHealth(o) ==
    /\ Len(log) < MaxRecords
    /\ IF o.kind = "json"
       THEN LET analysis == [n |-> Len(analyses) + 1, score |-> o.score]
            IN  /\ lastHealthScore' = analysis.score
                /\ analysisHistory' = HistoryPush(analysisHistory, analysis)
                /\ analyses' = Append(analyses, analysis)
                /\ \E F \in SUBSET Range(sseClients) :
                      Write("info", "AI-SUPERVISOR", sseClients, stream, F)
                /\ aiResult' = [call |-> "analyzeHealth", raised |-> FALSE,
                                error |-> FALSE, success |-> TRUE,
                                status |-> "model", score |-> analysis.score]
       ELSE /\ \E F \in SUBSET Range(sseClients) :
                  Write("error", "AI-SUPERVISOR", sseClients, stream, F)
            /\ aiResult' = [call |-> "analyzeHealth", raised |-> FALSE,
                            error |-> TRUE, success |-> FALSE,
                            status |-> "indisponivel",
                            score |-> NullishFifty(lastHealthScore)]
            /\ UNCHANGED <<analysisHistory, lastHealthScore, analyses>>
    /\ UNCHANGED <<keepalive, cstate, subscribedAt, file, trackerVars, emitVars,
                   reply, httpVars, authVars, dsVars, logsAnswer>>

\* chat(userMessage, snapshot), its _callGroq promise settling as o: any text
\* the promise resolves with is the answer
Chat(o) ==
    /\ Len(log) < MaxRecords
    /\ \E F \in SUBSET Range(sseClients) :
          Write(IF o.kind \in Rejections THEN "error" ELSE "info", "AI-SUPERVISOR",
                sseClients, stream, F)
    /\ aiResult' = [call |-> "chat", raised |-> FALSE, error |-> FALSE,
                    success |-> o.kind \notin Rejections,
                    status |-> "none", score |-> NoScore]
    /\ UNCHANGED <<analysisHistory, lastHealthScore, analyses>>
    /\ UNCHANGED <<keepalive, cstate, subscribedAt, file, trackerVars, emitVars,
                   reply, httpVars, authVars, dsVars, logsAnswer>>

\* getHistory: [..._analysisHistory].reverse().slice(0, 20)
getHistory == SubSeq(Reverse(analysisHistory), 1,
                     IF Len(analysisHistory) < HISTORY_SHOWN
                     THEN Len(analysisHistory) ELSE HISTORY_SHOWN)

\* getLastScore: _lastHealthScore (null before the first analysis)
getLastScore == lastHealthScore

\* logs.filter(l => l.level === 'error' || l.level === 'critical').slice(0, 20)
criticalLogs(logs) ==
    LET all == SelectSeq(logs, LAMBDA l : l.level \in {"error", "critical"})
    IN  SubSeq(all, 1, IF Len(all) < CRITICAL_SHOWN THEN Len(all) ELSE CRITICAL_SHOWN)

\* POST /api/ai/analyze-logs, the _callGroq promise of analyzeLogs (if it
\* makes the call) settling as o.  analyzeLogs returns null without logs,
\* without error or critical logs, and when the call is rejected; the route
\* answers null with the message that there is no critical error.  Neither
\* function writes a log record on these paths.  found: the error and
\* critical entries among those getLogs returned
AnalyzeLogsRoute(o) ==
    LET logs == getLogs(buffer, NoFilter, NoFilter, ANALYZE_LIMIT)
        crit == criticalLogs(logs)
        diagnosis == Len(logs) > 0 /\ Len(crit) > 0 /\ o.kind \notin Rejections
    IN  /\ logsAnswer' =
              [status |-> 200,
               body |-> IF diagnosis THEN "diagnosis" ELSE "noCriticalError",
               found |-> Len(SelectSeq(logs, LAMBDA l : l.level \in {"error", "critical"})),
               logsAnalyzed |-> IF diagnosis THEN Len(crit) ELSE 0]
        /\ UNCHANGED <<analysisHistory, lastHealthScore, aiResult, analyses>>
        /\ UNCHANGED <<buffer, stats, log, streamVars, diskVars, trackerVars,
                       emitVars, reply, httpVars, authVars, dsVars>>

AnalyzeLevels == {"info", "error", "critical"}

NextAnalyzeLogs ==
    \/ \E l \in AnalyzeLevels : Record(l, "CORE")
    \/ \E o \in GroqOutcomes : AnalyzeLogsRoute(o)

\* the logger and the log analysis of the supervisor
SpecAnalyzeLogs == Init /\ [][NextAnalyzeLogs]_vars

NextAi ==
    \/ \E o \in GroqOutcomes : AnalyzeHealth(o)
    \/ \E o \in GroqOutcomes : Chat(o)

\* the supervisor and the logger it writes to
SpecAi == Init /\ [][NextAi]_vars

\* ------------------------------------------------------ authentication
\* a path is a sequence of pieces of its text, cut so that every prefix the
\* code tests ends between two pieces: "/api/statusx" is </api, /status, x>
HealthPath == <<"/health">>
StatusPath == <<"/api", "/status">>

\* PUBLIC_PATHS
PUBLIC_PATHS == <<HealthPath, StatusPath>>

\* path.startsWith(p)
IsPrefix(p, path) == Len(p) <= Len(path) /\ SubSeq(path, 1, Len(p)) = p

\* PUBLIC_PATHS.some(p => req.path.startsWith(p))
IsPublic(path) == \E i \in 1..Len(PUBLIC_PATHS) : IsPrefix(PUBLIC_PATHS[i], path)

\* the Authorization header: absent, or "Bearer <token>"
NoHeader == [bearer |-> FALSE, token |-> ""]
Bearer(t) == [bearer |-> TRUE, token |-> t]

\* authHeader.startsWith('Bearer ') ? authHeader.slice(7).trim()
\*                                  : req.query._token || ''
Provided(header, query) == IF header.bearer THEN header.token ELSE query

\* the handler express runs for a path once authMiddleware has called
\* next(): app.get('/health'), app.get('/api/status'), a router mounted on
\* /api/data, /api/system or /api/ai, or the 404 handler
RouteOf(path) ==
    IF path = HealthPath THEN "health"
    ELSE IF path = StatusPath THEN "status"
    ELSE IF IsPrefix(<<"/api", "/data">>, path) /\ Len(path) = 3 THEN "data"
    ELSE IF IsPrefix(<<"/api", "/system">>, path) /\ Len(path) = 3 THEN "system"
    ELSE "notFound"

StatusOf(handler) == IF handler = "notFound" THEN 404 ELSE 200

\* require('dotenv').config(): the environment is read before the server
\* takes its first request
LoadEnv(t) ==
    /\ apiToken = ""
    /\ authReply = NoAuthReply
    /\ log = <<>>
    /\ apiToken' = t
    /\ UNCHANGED <<buffer, stats, log, streamVars, diskVars, trackerVars, emitVars,
                   reply, httpVars, aiVars, authReply, dsVars>>

\* authMiddleware(req, res, next) and the handler express runs after it
AuthRequest(path, header, query) ==
    LET provided == Provided(header, query)
    IN  IF IsPublic(path)
        THEN /\ authReply' = [path |-> path, provided |-> provided,
                              status |-> StatusOf(RouteOf(path)),
                              handler |-> RouteOf(path)]
             /\ UNCHANGED <<buffer, stats, log, pending, sseClients, stream>>
        ELSE /\ Len(log) < MaxRecords
             /\ IF apiToken = ""
                THEN /\ \E F \in SUBSET Range(sseClients) :
                           Write("warn", "AUTH", sseClients, stream, F)
                     /\ authReply' = [path |-> path, provided |-> provided,
                                      status |-> StatusOf(RouteOf(path)),
                                      handler |-> RouteOf(path)]
                ELSE IF provided = "" \/ provided # apiToken
                THEN /\ \E F \in SUBSET Range(sseClients) :
                           Write("warn", "AUTH", sseClients, stream, F)
                     /\ authReply' = [path |-> path, provided |-> provided,
                                      status |-> 401, handler |-> "none"]
                ELSE /\ authReply' = [path |-> path, provided |-> provided,
                                      status |-> StatusOf(RouteOf(path)),
                                      handler |-> RouteOf(path)]
                     /\ UNCHANGED <<buffer, stats, log, pending, sseClients, stream>>

\* the paths, headers and query tokens explored
AuthPaths ==
    { HealthPath, StatusPath, <<"/api", "/status", "x">>,
      <<"/api", "/data", "/all">>, <<"/api", "/system", "/status">>, <<"/nowhere">> }
Tokens == {"secret", "wrong"}
AuthHeaders == {NoHeader} \cup {Bearer(t) : t \in Tokens}

Request(path, header, query) ==
    /\ AuthRequest(path, header, query)
    /\ UNCHANGED <<keepalive, cstate, subscribedAt, file, trackerVars, emitVars,
                   reply, httpVars, aiVars, apiToken, dsVars>>

NextAuth ==
    \/ LoadEnv("secret")
    \/ \E p \in AuthPaths, h \in AuthHeaders, q \in Tokens \cup {""} : Request(p, h, q)

\* authMiddleware in front of the routes
SpecAuth == Init /\ [][NextAuth]_vars

\* ----------------------------------------------------------- datastore
\* The store is taken after its constructor ran; the record the constructor
\* writes ('DataStore inicializado') is left out of the log.
\* DATASETS: the known names and their files
DATASETS(name) == IF name = <<"produtos">> THEN <<"produtos", ".json">> ELSE <<>>

EndsWithJson(name) == name[Len(name)] = ".json"

\* get: DATASETS[name] || (name.endsWith('.json') ? name : `${name}.json`)
GetFilename(name) ==
    IF DATASETS(name) # <<>> THEN DATASETS(name)
    ELSE IF EndsWithJson(name) THEN name
    ELSE name \o <<".json">>

\* set: DATASETS[name] || `${name}.json`
SetFilename(name) ==
    IF DATASETS(name) # <<>> THEN DATASETS(name) ELSE name \o <<".json">>

\* variant: an entry of exactly the TTL is still served
IsFreshInclusive(entry, t) == t - entry.ts <= CACHE_TTL_MS

\* Date.now() - cached.ts < CACHE_TTL_MS
IsFresh(entry, t) == t - entry.ts < CACHE_TTL_MS

\* the logger call of a datastore operation
LogDs(level) ==
    \E F \in SUBSET Range(sseClients) : Write(level, "DATASTORE", sseClients, stream, F)

\* the body of DataStore.get(name, { bustCache }): the function has no await,
\* it runs to its return in one turn.  by: the updateItem call that keeps the
\* array the read creates (0: a caller that only reads it)
get(name, bust, by) ==
    LET f   == GetFilename(name)
        age == IF cache[f].has THEN now - cache[f].ts ELSE -1
    IN  /\ IF ~bust /\ cache[f].has /\ IsFresh(cache[f], now)
           THEN /\ LogDs("debug")
                /\ dsReply' = [op |-> "get", name |-> name, bust |-> bust,
                               result |-> cache[f].data, readDisk |-> FALSE,
                               age |-> age]
                /\ UNCHANGED <<cache, dsCounts, held>>
           ELSE IF disk[f] = Missing
           THEN /\ LogDs("warn")
                /\ dsCounts' = [dsCounts EXCEPT !.errors = @ + 1]
                /\ dsReply' = [op |-> "get", name |-> name, bust |-> bust,
                               result |-> Empty, readDisk |-> TRUE, age |-> age]
                /\ UNCHANGED <<cache, held>>
           ELSE IF disk[f] = Invalid
           THEN /\ LogDs("error")
                /\ dsCounts' = [dsCounts EXCEPT !.errors = @ + 1]
                /\ dsReply' = [op |-> "get", name |-> name, bust |-> bust,
                               result |-> Empty, readDisk |-> TRUE, age |-> age]
                /\ UNCHANGED <<cache, held>>
           ELSE /\ LogDs("debug")
                /\ dsCounts' = [dsCounts EXCEPT !.reads = @ + 1]
                /\ cache' = [cache EXCEPT ![f] = [has |-> TRUE, data |-> disk[f],
                                                  ts |-> now]]
                /\ held' = [held EXCEPT ![f] = by]
                /\ dsReply' = [op |-> "get", name |-> name, bust |-> bust,
                               result |-> disk[f], readDisk |-> TRUE, age |-> age]
        /\ UNCHANGED <<disk, now, lastSet>>

\* the log records of the updateItem calls so far: one of the get, one of the
\* set or of the warning
UpdateRecords ==
    LET n(c) == IF upd[c].pc = "idle" THEN 0
                ELSE IF upd[c].pc = "awaitGet" THEN 1 ELSE 2
        sum[k \in 0..NumCalls] == IF k = 0 THEN 0 ELSE sum[k - 1] + n(k)
    IN  sum[NumCalls]

\* a get call of a route or of another caller of the store
Get(name, bust) ==
    /\ Len(log) - UpdateRecords < MaxStoreCalls
    /\ get(name, bust, 0)
    /\ UNCHANGED <<upd, queue>>
    /\ UNCHANGED <<keepalive, cstate, subscribedAt, file, trackerVars, emitVars,
                   reply, httpVars, aiVars, authVars>>

\* the body of DataStore.set(name, data), called with the cache as cch;
\* ok: whether fs.writeFileSync succeeds
set(cch, name, data, ok) ==
    LET f == SetFilename(name)
    IN  /\ IF ok
           THEN /\ disk' = [disk EXCEPT ![f] = data]
                /\ dsCounts' = [dsCounts EXCEPT !.writes = @ + 1]
                /\ cache' = [cch EXCEPT ![f] = NoCacheEntry]
                /\ held' = [held EXCEPT ![f] = 0]
                /\ LogDs("info")
                /\ dsReply' = [op |-> "set", name |-> name, bust |-> FALSE,
                               result |-> "true", readDisk |-> FALSE, age |-> -1]
                /\ lastSet' = [name |-> name, data |-> data]
           ELSE /\ dsCounts' = [dsCounts EXCEPT !.errors = @ + 1]
                /\ LogDs("error")
                /\ dsReply' = [op |-> "set", name |-> name, bust |-> FALSE,
                               result |-> "false", readDisk |-> FALSE, age |-> -1]
                /\ lastSet' = NoSet
                /\ cache' = cch
                /\ UNCHANGED <<disk, held>>
        /\ UNCHANGED now

\* a set call of a caller of the store
Set(name, data, ok) ==
    /\ Len(log) - UpdateRecords < MaxStoreCalls
    /\ set(cache, name, data, ok)
    /\ UNCHANGED <<upd, queue>>
    /\ UNCHANGED <<keepalive, cstate, subscribedAt, file, trackerVars, emitVars,
                   reply, httpVars, aiVars, authVars>>

\* the clock advances
Tick ==
    /\ now < MaxClock
    /\ now' = now + 1
    /\ UNCHANGED <<cache, disk, dsCounts, dsReply, lastSet, updVars>>
    /\ UNCHANGED <<buffer, stats, log, streamVars, diskVars, trackerVars, emitVars,
                   reply, httpVars, aiVars, authVars>>

\* a file of DATA_DIR is removed or damaged from outside the server
DiskChange(f, content) ==
    /\ disk[f] \in Arrays
    /\ disk' = [disk EXCEPT ![f] = content]
    /\ lastSet' = NoSet
    /\ UNCHANGED <<cache, now, dsCounts, dsReply, updVars>>
    /\ UNCHANGED <<buffer, stats, log, streamVars, diskVars, trackerVars, emitVars,
                   reply, httpVars, aiVars, authVars>>

NextStore ==
    \/ \E n \in Names, b \in BOOLEAN : Get(n, b)
    \/ \E n \in Names, d \in Arrays, ok \in BOOLEAN : Set(n, d, ok)
    \/ Tick
    \/ \E f \in Filenames, c \in {Missing, Invalid} : DiskChange(f, c)

\* the dataset store, its files and the clock
SpecStore == Init /\ [][NextStore]_vars

\* ------------------------------------------------- datastore: updateItem
\* the ids updateItem is called with; no array holds an item of id 3
ItemIds == {1, 2, 3}

\* the names updateItem is called with: a name of the DATASETS map and a
\* name that ends in ".json"
UpdateNames == { <<"produtos">>, <<"extra", ".json">> }

\* the ids of the items of an array that carry a patch
PatchedIds(data) ==
    IF data = "A1" THEN {1}
    ELSE IF data = "A2" THEN {2}
    ELSE IF data = "A12" THEN {1, 2}
    ELSE {}

\* data.findIndex(item => String(item.id) === String(id)) !== -1
HasItem(data, id) == data \in WithItems /\ id \in {1, 2}

\* data[idx] = { ...data[idx], ...patch, updatedAt }
Patch(data, id) ==
    LET ids == PatchedIds(data) \cup {id}
    IN  IF ids = {1} THEN "A1" ELSE IF ids = {2} THEN "A2" ELSE "A12"

\* the assignment data[idx] = ... changes the array in place: the cache
\* entries whose data are that array change with it
Mutate(cch, c, patched) ==
    [f \in Filenames |->
        IF cch[f].has /\ held[f] = c THEN [cch[f] EXCEPT !.data = patched]
        ELSE cch[f]]

\* no call is in progress, or the calls in progress were started in this
\* turn: none has resumed yet
SameTurn == \A i \in 1..Len(queue) : upd[queue[i]].pc = "awaitGet"

\* updateItem(name, id, patch) is called, in a turn of its own or in the turn
\* that started the calls in progress: it runs up to its first await,
\* const data = await this.get(name, { bustCache: true })
StartUpdate(c, name, id) ==
    /\ upd[c].pc = "idle"
    /\ \A d \in Calls : d < c => upd[d].pc # "idle"
    /\ SameTurn
    /\ get(name, TRUE, c)
    /\ upd' = [upd EXCEPT ![c] = [pc |-> "awaitGet", name |-> name, id |-> id,
                                  data |-> dsReply'.result, wrote |-> FALSE,
                                  result |-> "none", during |-> Range(queue)]]
    /\ queue' = Append(queue, c)
    /\ UNCHANGED <<keepalive, cstate, subscribedAt, file, trackerVars, emitVars,
                   reply, httpVars, aiVars, authVars>>

\* the call resumes after the await of get: either the item is not there
\* and it returns null, or it patches the item and runs up to
\* await this.set(name, data); ok: whether fs.writeFileSync succeeds
PatchAndSet(c, ok) ==
    /\ queue # <<>>
    /\ c = Head(queue)
    /\ upd[c].pc = "awaitGet"
    /\ IF ~HasItem(upd[c].data, upd[c].id)
       THEN /\ LogDs("warn")
            /\ upd' = [upd EXCEPT ![c].pc = "done", ![c].result = "null"]
            /\ queue' = Tail(queue)
            /\ UNCHANGED <<cache, disk, now, dsCounts, dsReply, lastSet, held>>
       ELSE LET patched == Patch(upd[c].data, upd[c].id)
            IN  /\ set(Mutate(cache, c, patched), upd[c].name, patched, ok)
                /\ upd' = [upd EXCEPT ![c].pc = "awaitSet", ![c].data = patched,
                                      ![c].wrote = ok]
                /\ queue' = Append(Tail(queue), c)
    /\ UNCHANGED <<keepalive, cstate, subscribedAt, file, trackerVars, emitVars,
                   reply, httpVars, aiVars, authVars>>

\* the call resumes after the await of set: return data[idx]
ReturnUpdate(c) ==
    /\ queue # <<>>
    /\ c = Head(queue)
    /\ upd[c].pc = "awaitSet"
    /\ upd' = [upd EXCEPT ![c].pc = "done", ![c].result = "item"]
    /\ queue' = Tail(queue)
    /\ UNCHANGED <<cache, disk, now, dsCounts, dsReply, lastSet, held>>
    /\ UNCHANGED <<buffer, stats, log, streamVars, diskVars, trackerVars, emitVars,
                   reply, httpVars, aiVars, authVars>>

\* a later turn: get of the dataset a finished call updated
GetUpdated(c, bust) ==
    /\ queue = <<>>
    /\ upd[c].pc = "done"
    /\ Get(upd[c].name, bust)

NextUpdate ==
    \/ \E c \in Calls, n \in UpdateNames, i \in ItemIds : StartUpdate(c, n, i)
    \/ \E c \in Calls, ok \in BOOLEAN : PatchAndSet(c, ok)
    \/ \E c \in Calls : ReturnUpdate(c)
    \/ \E c \in Calls, b \in BOOLEAN : GetUpdated(c, b)

\* updateItem calls and, in the turns after them, get calls of the datasets
\* they updated; all within one TTL
SpecUpdate == Init /\ [][NextUpdate]_vars

\* ---------------------------------------------------------- GET /logs
\* the limit of getLogs and of the route when the caller gives none
DEFAULT_LIMIT == 200

\* the limit query parameter: absent, or the decimal text of a number >= 0
NoLimit == [given |-> FALSE, value |-> 0]
GivenLimit(n) == [given |-> TRUE, value |-> n]
QueryLimits == {NoLimit} \cup {GivenLimit(n) : n \in 0..MAX_LINES + 1}

\* const { limit = 200 } = req.query; parseInt(limit, 10)
parseLimit(q) == IF q.given THEN q.value ELSE DEFAULT_LIMIT

QueryLevels == {"info", "error"}
QueryModules == {"CORE", "HTTP"}

\* GET /api/system/logs?level=&module=&limit= : the body of the reply
GetLogsRoute(level, module, q) ==
    /\ reply' = [level |-> level, module |-> module, limit |-> parseLimit(q),
                 logs |-> getLogs(buffer, level, module, parseLimit(q))]
    /\ UNCHANGED <<buffer, stats, log, streamVars, diskVars, trackerVars, emitVars,
                   httpVars, svcVars>>

NextQuery ==
    \/ \E l \in QueryLevels, m \in QueryModules : Record(l, m)
    \/ \E l \in QueryLevels \cup {NoFilter}, m \in QueryModules \cup {NoFilter},
          q \in QueryLimits : GetLogsRoute(l, m, q)

\* the logger and its query route
SpecQuery == Init /\ [][NextQuery]_vars

\* ------------------------------------------------------- POST /log
\* the level of the body: absent, one of the five, or another text
BodyLevels == {Undefined, "critical", "fatal", "INFO"}
\* the message of the body: absent, empty or a text
BodyMessages == {Undefined, "", "text"}

validLevels == {"debug", "info", "warn", "error", "critical"}

\* const { level = 'info' } = req.body || {}
levelOrInfo(level) == IF level = Undefined THEN "info" ELSE level

\* variant: the level of the body is used as it is
safeLevelAsGiven(level) == level

\* validLevels.includes(level) ? level : 'info'
safeLevel(level) == IF level \in validLevels THEN level ELSE "info"

\* !message
Falsy(message) == message \in {Undefined, ""}

\* POST /api/system/log with a body { level, message }; module is left to
\* its default
PostLog(level, message) ==
    /\ Len(log) < MaxRecords
    /\ IF Falsy(message)
       THEN /\ posted' = [level |-> level, message |-> message, status |-> 400,
                          before |-> Len(log), after |-> Len(log)]
            /\ UNCHANGED <<buffer, stats, log, sseClients, stream, pending>>
       ELSE /\ \E F \in SUBSET Range(sseClients) :
                  Write(safeLevel(levelOrInfo(level)), "FRONTEND", sseClients, stream, F)
            /\ posted' = [level |-> level, message |-> message, status |-> 200,
                          before |-> Len(log), after |-> Len(log')]
    /\ UNCHANGED <<keepalive, cstate, subscribedAt, file, trackerVars, emitVars,
                   reply, rstate, rkind, seen, svcVars>>

NextPost ==
    \/ \E l \in BodyLevels, m \in BodyMessages : PostLog(l, m)
    \/ \E l \in RecordLevels : Record(l, "HTTP")

\* the logger, its callers inside the server and POST /api/system/log
SpecPost == Init /\ [][NextPost]_vars

\* --------------------------------------------------- 'log' listeners
\* EventEmitter.on('log', l): a component adds a listener of its own
On(l) ==
    /\ l \notin Range(listeners)
    /\ listeners' = Append(listeners, l)
    /\ UNCHANGED <<buffer, stats, log, streamVars, diskVars, trackerVars,
                   notified, raised, reply, httpVars, svcVars>>

\* EventEmitter.emit: the listeners are called in registration order and an
\* exception thrown by one of them leaves emit at once.  T: the listeners
\* that throw in this call; the result lists the listeners that were called
RECURSIVE emitCalls(_, _)
emitCalls(ls, T) ==
    IF ls = <<>> THEN <<>>
    ELSE IF Head(ls) \in T THEN <<Head(ls)>>
         ELSE <<Head(ls)>> \o emitCalls(Tail(ls), T)

\* K11Logger._write with the listeners registered at the time: counter, ring
\* and file append come first, this.emit('log', entry) is not guarded, so a
\* throwing listener makes _write throw instead of returning the entry
RecordEmit(level, module) ==
    /\ Len(log) < MaxRecords
    /\ \E T \in SUBSET (Range(listeners) \cap ExtraListeners) :
       \E F \in SUBSET Range(sseClients) :
          LET entry  == NewEntry(Len(log) + 1, level, module)
              called == Range(emitCalls(listeners, T))
              out    == onLog(sseClients, stream, entry, F)
          IN  /\ stats' = StatsBump(stats, level)
              /\ buffer' = BufferPush(buffer, entry)
              /\ log' = Append(log, entry)
              /\ pending' = appendFile(pending, entry)
              /\ sseClients' = IF "sse" \in called THEN out.clients ELSE sseClients
              /\ stream' = IF "sse" \in called THEN out.stream ELSE stream
              /\ notified' = [l \in ExtraListeners |->
                                IF l \in called THEN Append(notified[l], entry.id)
                                ELSE notified[l]]
              /\ raised' = (T # {})
    /\ UNCHANGED <<keepalive, cstate, subscribedAt, file, trackerVars, listeners, reply,
                   httpVars, svcVars>>

NextEmit ==
    \/ \E l \in ExtraListeners : On(l)
    \/ \E l \in RecordLevels, m \in Modules : RecordEmit(l, m)

\* the logger with listeners added by other components
SpecEmit == Init /\ [][NextEmit]_vars

\* Spec plus repeated runs of the close listener
NextIdem ==
    \/ Next
    \/ \E c \in Clients : CloseAgain(c)

SpecIdem == Init /\ [][NextIdem]_vars

\* ---------------------------------------------------- derived quantities
Active == Range(sseClients)

\* the entries of the log frames of a stream, pings and the ack dropped
RECURSIVE LogEntriesOf(_)
LogEntriesOf(s) ==
    IF s = <<>> THEN <<>>
    ELSE IF Head(s).type = "log"
         THEN <<Head(s).entry>> \o LogEntriesOf(Tail(s))
         ELSE LogEntriesOf(Tail(s))

\* the frames of a stream without the keepalive comments
RECURSIVE DataFrames(_)
DataFrames(s) ==
    IF s = <<>> THEN <<>>
    ELSE IF Head(s).type = "ping"
         THEN DataFrames(Tail(s))
         ELSE <<Head(s)>> \o DataFrames(Tail(s))

\* size of the replay block of c: min(limit, buffer size when c connected)
ReplayLen(c) == Min(RECENT_LIMIT, Min(subscribedAt[c], MAX_LINES))

\* the entries c received after its replay block
LiveEntries(c) ==
    LET es == LogEntriesOf(stream[c])
    IN  SubSeq(es, ReplayLen(c) + 1, Len(es))

CountLevel(l) == Cardinality({i \in 1..Len(log) : log[i].level = l})

\* a step that records exactly one entry
Recorded == Len(log') = Len(log) + 1
NewestEntry == log'[Len(log')]

\* ------------------------------------------------------------------ C1
\* C1: after n record() calls the buffer holds exactly the last
\* min(n, MAX_LINES) entries recorded, in insertion order; past MAX_LINES its
\* oldest entry is the (n - MAX_LINES + 1)-th recorded; getLogs with limit
\* MAX_LINES returns that many entries and getStats().bufferSize that length.
C1_RingHoldsLastEntries ==
    LET n == Len(log)
        k == Min(n, MAX_LINES)
    IN  /\ Len(buffer) = k
        /\ buffer = SubSeq(log, n - k + 1, n)
        /\ getStats.bufferSize = k
        /\ n > MAX_LINES =>
              /\ buffer[1].id = n - MAX_LINES + 1
              /\ Len(getLogs(buffer, NoFilter, NoFilter, MAX_LINES)) = MAX_LINES

C1_Witness ==
    /\ Len(log) > MAX_LINES
    /\ Len(buffer) = MAX_LINES
    /\ buffer[1].id = Len(log) - MAX_LINES + 1

\* ------------------------------------------------------------------ C2
\* C2: every level counter equals the number of record() calls ever made
\* with that level, eviction or not, and getStats().total is the sum of the
\* five counters (= the number of record() calls).
C2_CountsAreLifetime ==
    /\ \A l \in Levels : stats[l] = CountLevel(l)
    /\ DOMAIN stats = Levels
    /\ getStats.total = stats["debug"] + stats["info"] + stats["warn"]
                        + stats["error"] + stats["critical"]
    /\ getStats.total = Len(log)

C2_Witness ==
    /\ Len(buffer) = MAX_LINES
    /\ \E l \in Levels : stats[l] > Len(buffer)

\* ------------------------------------------------------------------ C3
\* C3: for every client in the active set, the entries it received after its
\* replay block are exactly the entries recorded since it subscribed, in
\* recording order, without gap or duplicate.
C3_LiveStreamIsRecordedSequence ==
    \A c \in Active :
        LiveEntries(c) = SubSeq(log, subscribedAt[c] + 1, Len(log))

C3_Witness ==
    \E c \in Active :
        /\ Len(log) >= subscribedAt[c] + 3
        /\ Len(LiveEntries(c)) >= 3

\* ------------------------------------------------------------------ C4
\* a client is dropped by a failed delivery in this step (not by its close)
DroppedByFailure(x) ==
    /\ x \notin Range(sseClients')
    /\ cstate'[x] = "open"
    /\ x \in Active \/ cstate[x] = "none"

\* C4: in a record() during which the write to some client fails, every
\* client still active afterwards has received that entry as its last frame,
\* and the record completes: the entry is the newest of the buffer.
C4_FanOutIsolation ==
    [][(Recorded /\ \E x \in Clients : DroppedByFailure(x)) =>
          /\ \A y \in Range(sseClients') :
                /\ Len(stream'[y]) > 0
                /\ stream'[y][Len(stream'[y])] = LogMsg(NewestEntry)
          /\ \A y \in Active \ Range(sseClients') :
                LogEntriesOf(stream'[y]) = LogEntriesOf(stream[y])
          /\ buffer'[Len(buffer')] = NewestEntry]_vars

\* X subscribed before Y, received every entry but the newest; Y has it
C4_Witness ==
    \E x, y \in Clients :
        /\ x # y
        /\ cstate[x] = "open" /\ x \notin Active
        /\ y \in Active
        /\ subscribedAt[x] < subscribedAt[y]
        /\ subscribedAt[y] + 1 < Len(log)
        /\ Len(LiveEntries(x)) = Len(log) - subscribedAt[x] - 1
        /\ LogMsg(log[Len(log)]) \in Range(stream[y])
        /\ LogMsg(log[Len(log)]) \notin Range(stream[x])
\* ------------------------------------------------------------------ C5
\* C5: the log entries a client receives, replay block and live part taken
\* together, carry consecutive ordinals in increasing order, so no entry is
\* both replayed and delivered live and none recorded after the replay
\* snapshot is skipped; while the client is active the last one is the
\* newest entry recorded.
C5_ReplayToLiveIsSeamless ==
    \A c \in Clients :
        LET es == LogEntriesOf(stream[c])
        IN  /\ \A i \in 1..Len(es) : es[i] = log[es[i].id]
            /\ \A i \in 1..(Len(es) - 1) : es[i + 1].id = es[i].id + 1
            /\ c \in Active => /\ Len(es) > 0
                               /\ es[Len(es)].id = Len(log)

\* a replay block of two entries followed by two live entries
C5_Witness ==
    \E c \in Active :
        /\ ReplayLen(c) >= 2
        /\ Len(LiveEntries(c)) >= 2
        /\ Len(LogEntriesOf(stream[c])) = ReplayLen(c) + Len(log) - subscribedAt[c]

\* ------------------------------------------------------------------ C6
\* C6: the stream of a client whose handshake completed starts with the
\* acknowledgement, then the min(RECENT_LIMIT, buffer size) newest entries
\* buffered when it connected, oldest first; every log frame after that
\* block is an entry recorded after the connection.  A handshake that was
\* cut short wrote a prefix of that block and nothing else.
C6_HandshakeOrder ==
    \A c \in Clients :
        LET s == DataFrames(stream[c])
            n == subscribedAt[c]
            r == ReplayLen(c)
        IN  /\ Len(s) > 0 => s[1] = ConnectedMsg
            /\ cstate[c] \in {"open", "closed"} =>
                  /\ Len(s) >= 1 + r
                  /\ \A i \in 1..r : s[1 + i] = LogMsg(log[n - r + i])
                  /\ \A j \in (2 + r)..Len(s) :
                        s[j].type = "log" /\ s[j].entry.id > n
            /\ cstate[c] = "aborted" =>
                  /\ Len(s) <= RECENT_LIMIT
                  /\ \A j \in 2..Len(s) :
                        /\ s[j].type = "log"
                        /\ j < Len(s) => s[j + 1].entry.id = s[j].entry.id + 1

\* the buffer held more than RECENT_LIMIT entries and a live entry followed
C6_Witness ==
    \E c \in Clients :
        /\ cstate[c] = "open"
        /\ subscribedAt[c] > RECENT_LIMIT
        /\ Len(DataFrames(stream[c])) > 1 + RECENT_LIMIT

\* ------------------------------------------------------------------ C7
\* a client that was in the active set and has left it
Disconnected(c) == cstate[c] # "none" /\ c \notin Active

\* C7: a client enters the active set only from the unconnected state; a
\* client whose delivery fails is out of the set when the record() ends; a
\* client that has left the set stays out and no log frame is written to it.
C7_DisconnectedIsTerminal ==
    [][\A c \in Clients :
          /\ c \in Range(sseClients') /\ c \notin Active => cstate[c] = "none"
          /\ Disconnected(c) =>
                /\ c \notin Range(sseClients')
                /\ LogEntriesOf(stream'[c]) = LogEntriesOf(stream[c])
          /\ (Recorded /\ c \in Active /\ c \in Range(sseClients')) =>
                LogEntriesOf(stream'[c]) = Append(LogEntriesOf(stream[c]), NewestEntry)
      ]_vars

\* a client dropped by a failed delivery, two entries recorded since
C7_Witness ==
    \E c \in Clients :
        /\ cstate[c] = "open"
        /\ c \notin Active
        /\ Len(log) >= subscribedAt[c] + Len(LiveEntries(c)) + 2

\* ------------------------------------------------------------------ C8
\* a keepalive tick of c whose write threw
HeartbeatFailed(c) == c \in keepalive /\ c \notin keepalive' /\ log' = log

\* C8: after a failed heartbeat the client is out of the active set.
C8_HeartbeatFailureDisconnects ==
    [][\A c \in Clients : HeartbeatFailed(c) => c \notin Range(sseClients')]_vars

\* ------------------------------------------------------------------ C9
\* C9: a keepalive timer is active only for a member of the active set.
C9_NoLeakedTimer == keepalive \subseteq Active

\* ----------------------------------------------------------------- C10
\* a run of the close listener for a connection that is already closed
SecondCloseRun ==
    /\ Recorded
    /\ NewestEntry.level = "debug" /\ NewestEntry.module = "SSE"
    /\ cstate' = cstate

\* C10 as stated: a second run of the close listener leaves the active set
\* and the active timers as they were, for every client.
C10_SecondCloseChangesNothing ==
    [][SecondCloseRun => sseClients' = sseClients /\ keepalive' = keepalive]_vars

\* C10 amended: a second run changes no timer, adds no client and leaves
\* the closed clients out; the only members that leave the set are those
\* whose write of the debug entry that the run records failed.
C10_SecondCloseIdempotent ==
    [][SecondCloseRun =>
          /\ keepalive' = keepalive
          /\ Range(sseClients') \subseteq Active
          /\ \A c \in Clients : cstate[c] = "closed" => c \notin Range(sseClients')
          /\ \A y \in Active :
                y \in Range(sseClients') <=>
                    LogMsg(NewestEntry) \in Range(stream'[y])
      ]_vars

\* a connection closed twice while another client stays subscribed
C10_Witness ==
    \E c, y \in Clients :
        /\ cstate[c] = "closed"
        /\ y \in Active
        /\ cstate[y] = "open"
        /\ Cardinality({i \in 1..Len(log) :
                           log[i].level = "debug" /\ log[i].module = "SSE"})
              > Cardinality({x \in Clients : cstate[x] = "closed"})
\* ----------------------------------------------------------------- C11
\* C11: when an entry is recorded, record() returns to its caller and every
\* registered listener has been called with that entry, whether or not one
\* of the listeners threw; the counter and the ring are updated.
C11_ListenerIsolation ==
    [][Recorded =>
          /\ ~raised'
          /\ \A l \in Range(listeners) \cap ExtraListeners :
                notified'[l] = Append(notified[l], NewestEntry.id)
          /\ stats'[NewestEntry.level] = stats[NewestEntry.level] + 1
          /\ buffer'[Len(buffer')] = NewestEntry]_vars
\* ----------------------------------------------------------------- C12
\* a file operation completes in this step
FsCompleted == Len(pending') < Len(pending)

\* C12: when record() returns, the append of its entry is still in flight
\* and the line is not in the file; the completion of a file operation,
\* successful or not, changes neither the ring, the counters nor what
\* getLogs and getStats return.
C12_DiskNeverSurfaces ==
    [][/\ Recorded =>
             /\ AppendOp(NewestEntry) \in Range(pending')
             /\ NewestEntry \notin Range(file')
             /\ buffer'[Len(buffer')] = NewestEntry
       /\ FsCompleted =>
             /\ buffer' = buffer /\ stats' = stats /\ log' = log
             /\ getStats' = getStats
             /\ getLogs(buffer', NoFilter, NoFilter, MAX_LINES)
                   = getLogs(buffer, NoFilter, NoFilter, MAX_LINES)]_vars

\* one append has failed, a later one succeeded; both entries are in the ring
C12_Witness ==
    \E i, j \in 1..Len(buffer) :
        /\ i < j
        /\ AppendOp(buffer[i]) \notin Range(pending)
        /\ buffer[i] \notin Range(file)
        /\ buffer[j] \in Range(file)
        /\ getStats.total = Len(log)
\* ----------------------------------------------------------------- C15
\* the number of truncations in flight
Truncations(ops) == Cardinality({i \in 1..Len(ops) : ops[i].op = "truncate"})

\* clearFile runs in this step
Cleared == Truncations(pending') > Truncations(pending)

\* C15: clearFile truncates only the file. In memory it does what recording
\* one info entry does: the info counter grows by one and no other counter
\* changes, the entry is appended to the ring, the oldest entry leaves if the
\* ring was full, and every other entry stays as it was, in place. When the
\* truncation completes, only the file changes.
C15_ClearFileKeepsMemory ==
    [][/\ Cleared =>
             /\ Recorded
             /\ NewestEntry.level = "info"
             /\ stats' = [stats EXCEPT !["info"] = @ + 1]
             /\ buffer' = Append(IF Len(buffer) < MAX_LINES THEN buffer ELSE Tail(buffer),
                                 NewestEntry)
             /\ file' = file
       /\ (FsCompleted /\ Truncations(pending') < Truncations(pending)) =>
             /\ file' \in {<<>>, file}
             /\ buffer' = buffer /\ stats' = stats]_vars

\* the file was cleared while the ring was full and the truncation is done:
\* the ring is full of entries that are no longer in the file
C15_Witness ==
    /\ Len(log) > MAX_LINES
    /\ log[Len(log)].module = "LOGGER"
    /\ Len(buffer) = MAX_LINES
    /\ stats["info"] = 1 /\ stats["error"] = Len(log) - 1
    /\ Truncations(pending) = 0
    /\ \E e \in Range(buffer) : e.level = "error" /\ e \notin Range(file)
                                 /\ AppendOp(e) \notin Range(pending)
\* ----------------------------------------------------------------- C13
\* a query is answered in this step
Queried == reply' # reply

\* the entries of the ring a query with these filters is about, oldest first
Matching(buf, level, module) ==
    SelectSeq(buf, LAMBDA e : /\ (level # NoFilter => e.level = level)
                              /\ (module # NoFilter => e.module = module))

\* the n newest entries of s, newest first
NewestFirst(s, n) ==
    [i \in 1..Min(n, Len(s)) |-> s[Len(s) + 1 - i]]

\* C13: a query without filters returns at most limit entries (200 when no
\* limit is given), the most recent ones of the ring, newest first; limit 0
\* included.
C13_LimitBoundsResult ==
    [][(Queried /\ reply'.level = NoFilter /\ reply'.module = NoFilter) =>
          /\ Len(reply'.logs) <= reply'.limit
          /\ reply'.logs = NewestFirst(buffer, reply'.limit)]_vars

\* ----------------------------------------------------------------- C14
\* C14: every entry a query returns has the requested level and the
\* requested module, an omitted filter restricts nothing, and the result is
\* the newest limit entries among the matching ones.
C14_FilterThenLimit ==
    [][Queried =>
          /\ \A i \in 1..Len(reply'.logs) :
                /\ reply'.level # NoFilter => reply'.logs[i].level = reply'.level
                /\ reply'.module # NoFilter => reply'.logs[i].module = reply'.module
          /\ reply'.logs = NewestFirst(Matching(buffer, reply'.level, reply'.module),
                                       reply'.limit)]_vars
\* ----------------------------------------------------------------- C16
\* a 'finish' handler runs in this step
Completed == Len(completions') = Len(completions) + 1

\* the request it runs for
Last == completions'[Len(completions')]

BucketNames == {"ok", "errors4xx", "errors5xx"}

\* C16: a completion increments total by one and exactly one of ok,
\* errors4xx, errors5xx: errors5xx for a status >= 500, errors4xx for
\* 400..499, ok otherwise. total = ok + errors4xx + errors5xx in every state
\* and no counter ever decreases.
C16_ExactlyOneBucket ==
    [][/\ Completed =>
             /\ reqStats'.total = reqStats.total + 1
             /\ \A b \in BucketNames :
                   reqStats'[b] = reqStats[b] +
                       (IF \/ b = "errors5xx" /\ Last.status >= 500
                           \/ b = "errors4xx" /\ Last.status \in 400..499
                           \/ b = "ok" /\ Last.status < 400
                        THEN 1 ELSE 0)
       /\ reqStats'.total = reqStats'.ok + reqStats'.errors4xx + reqStats'.errors5xx
       /\ \A k \in BucketNames \cup {"total", "slow"} : reqStats'[k] >= reqStats[k]]_vars

\* responses of status 399, 400, 499 and 500 have been counted
C16_Witness ==
    /\ {completions[i].status : i \in 1..Len(completions)} = {399, 400, 499, 500}
    /\ reqStats.total = 4
    /\ reqStats.ok = 1 /\ reqStats.errors4xx = 2 /\ reqStats.errors5xx = 1

\* ----------------------------------------------------------------- C17
\* entries of this level and module REQUEST recorded in this step whose
\* message names the route
RequestEntries(level, route) ==
    {i \in Len(log) + 1..Len(log') :
        /\ log'[i].level = level
        /\ log'[i].module = "REQUEST"
        /\ [id |-> log'[i].id, route |-> route] \in Range(named')}

\* C17: a completion increments slow exactly when its elapsed time is above
\* 500 ms, whatever its status, and exactly then a warn entry naming the
\* route is recorded; a request of exactly 500 ms is not slow.
C17_SlowIffAboveThreshold ==
    [][Completed =>
          LET above == Last.elapsed > SLOW_THRESHOLD_MS * TICKS_PER_MS
          IN  /\ reqStats'.slow = reqStats.slow + (IF above THEN 1 ELSE 0)
              /\ above <=> RequestEntries("warn", Last.route) # {}
              /\ ~above => \A i \in Len(log) + 1..Len(log') : log'[i].level # "warn"]_vars

\* a request of exactly 500 ms and one of 500.5 ms have completed: one slow
\* request, one warn entry
C17_Witness ==
    /\ \E i, j \in 1..Len(completions) :
          /\ completions[i].elapsed = SLOW_THRESHOLD_MS * TICKS_PER_MS
          /\ completions[j].elapsed = SLOW_THRESHOLD_MS * TICKS_PER_MS + 1
    /\ reqStats.total = 2
    /\ reqStats.slow = 1
    /\ stats["warn"] = 1

\* ----------------------------------------------------------------- C18
\* C18: a completion of status >= 500 records an error entry, slow or not.
C18_ServerErrorIsLogged ==
    [][(Completed /\ Last.status >= 500) =>
          RequestEntries("error", Last.route) # {}]_vars

\* ----------------------------------------------------------------- C19
\* (status, elapsed ms) = (200,100), (200,200), (404,50), (500,900), in ticks
Scenario == << <<200, 200>>, <<200, 400>>, <<404, 100>>, <<500, 1800>> >>

IsScenario(cs) ==
    /\ Len(cs) = Len(Scenario)
    /\ \A i \in 1..Len(cs) : <<cs[i].status, cs[i].elapsed>> = Scenario[i]

\* C19: after a completion avgLatencyMs is the integer nearest to
\* (previous avgLatencyMs * (total - 1) + elapsedMs) / total, a half rounded
\* up, with total already incremented; the four completions of the scenario
\* give total 4, ok 2, errors4xx 1, errors5xx 1, slow 1, avgLatencyMs 313.
C19_IncrementalAverage ==
    [][Completed =>
          LET n   == reqStats'.total
              num == reqStats.avgLatencyMs * (n - 1) * TICKS_PER_MS + Last.elapsed
              den == n * TICKS_PER_MS
              a   == reqStats'.avgLatencyMs
          IN  /\ (2 * a - 1) * den <= 2 * num
              /\ 2 * num < (2 * a + 1) * den
              /\ IsScenario(completions') =>
                    reqStats' = [total |-> 4, ok |-> 2, errors4xx |-> 1,
                                 errors5xx |-> 1, slow |-> 1, avgLatencyMs |-> 313]]_vars

\* the scenario has run
C19_Witness ==
    /\ IsScenario(completions)
    /\ reqStats.avgLatencyMs = 313

\* ----------------------------------------------------------------- C20
RECURSIVE SumElapsed(_)
SumElapsed(cs) == IF cs = <<>> THEN 0 ELSE Head(cs).elapsed + SumElapsed(Tail(cs))

Abs(x) == IF x < 0 THEN 0 - x ELSE x

\* the arithmetic mean of the latencies observed so far, rounded to the
\* nearest millisecond
RoundedMean ==
    LET sum == SumElapsed(completions)
        den == Len(completions) * TICKS_PER_MS
    IN  CHOOSE a \in 0..sum : (2 * a - 1) * den <= 2 * sum /\ 2 * sum < (2 * a + 1) * den

\* C20 as stated: after every completion avgLatencyMs is within 1 ms of the
\* rounded arithmetic mean of all latencies so far.
C20_WithinOneOfMean ==
    completions # <<>> => Abs(reqStats.avgLatencyMs - RoundedMean) <= 1

\* C20 amended: after n completions avgLatencyMs differs from the exact
\* arithmetic mean of the n latencies by at most (n + 1) / 4 ms: each step
\* adds a rounding error of at most half a millisecond, weighted by its rank.
C20_DriftBound ==
    LET n == Len(completions)
    IN  /\ reqStats.total = n
        /\ 4 * Abs(n * reqStats.avgLatencyMs * TICKS_PER_MS - SumElapsed(completions))
              <= n * (n + 1) * TICKS_PER_MS

\* the reported average has drifted more than 1 ms from the rounded mean
C20_Witness ==
    /\ completions # <<>>
    /\ Abs(reqStats.avgLatencyMs - RoundedMean) > 1
\* ----------------------------------------------------------------- C21
\* the completions of a route key, oldest first
CompletionsOf(cs, route) == SelectSeq(cs, LAMBDA c : c.route = route)

\* the bucket of a route key, as a set: empty when the key is absent
BucketOf(br, route) == {br[i] : i \in {j \in 1..Len(br) : br[j].route = route}}

\* C21: after any sequence of completions the bucket of every route key
\* holds the number of completions with exactly that key, the sum of their
\* elapsed times and the number of them with status >= 400; a key without
\* completions has no bucket; a completion changes the bucket of its own key
\* only and no bucket is ever removed.
C21_ByRouteCounts ==
    [][/\ \A r \in Routes :
             LET mine == CompletionsOf(completions', r)
             IN  BucketOf(byRoute', r) =
                    IF mine = <<>> THEN {}
                    ELSE {[route   |-> r,
                           count   |-> Len(mine),
                           totalMs |-> SumElapsed(mine),
                           errors  |-> Len(SelectSeq(mine, LAMBDA c : c.status >= 400))]}
       /\ Completed =>
             \A r \in Routes \ {Last.route} : BucketOf(byRoute', r) = BucketOf(byRoute, r)
       /\ \A r \in Routes : BucketOf(byRoute, r) # {} => BucketOf(byRoute', r) # {}
       /\ Len(byRoute') = Cardinality({byRoute'[i].route : i \in 1..Len(byRoute')})]_vars

\* two keys that differ in the last path segment only, one with two
\* completions of which one is an error, the other with one completion
C21_Witness ==
    /\ BucketOf(byRoute, "GET /api/items/1") =
          {[route |-> "GET /api/items/1", count |-> 2, totalMs |-> 301, errors |-> 1]}
    /\ BucketOf(byRoute, "GET /api/items/2") =
          {[route |-> "GET /api/items/2", count |-> 1, totalMs |-> 201, errors |-> 0]}

\* ----------------------------------------------------------------- C22
\* the position of a route key in stats.byRoute, i.e. its insertion rank
KeyRank(br, route) == CHOOSE i \in 1..Len(br) : br[i].route = route

\* bucket a comes before bucket b in the order of topRoutes
RanksBefore(br, a, b) ==
    \/ br[a].count > br[b].count
    \/ br[a].count = br[b].count /\ a < b

\* C22: topRoutes of a snapshot has min(TOP_ROUTES, number of keys) items;
\* they are the keys of the highest counts, by count descending, keys of the
\* same count in the order of their insertion; each item reports the count
\* and the errors of its key and avgMs, the integer nearest to totalMs / count.
C22_TopRoutes ==
    [][snap' # snap =>
          LET t  == snap'.topRoutes
              br == byRoute
              ix == [i \in 1..Len(t) |-> KeyRank(br, t[i].route)]
          IN  /\ Len(t) = Min(TOP_ROUTES, Len(br))
              /\ \A i \in 1..Len(t) : \E k \in 1..Len(br) : br[k].route = t[i].route
              /\ \A i \in 1..Len(t) :
                    /\ t[i].count = br[ix[i]].count
                    /\ t[i].errors = br[ix[i]].errors
                    /\ (2 * t[i].avgMs - 1) * t[i].count * TICKS_PER_MS
                          <= 2 * br[ix[i]].totalMs
                    /\ 2 * br[ix[i]].totalMs
                          < (2 * t[i].avgMs + 1) * t[i].count * TICKS_PER_MS
              /\ \A i, j \in 1..Len(t) : i < j => RanksBefore(br, ix[i], ix[j])
              /\ \A i \in 1..Len(t) :
                    \A k \in 1..Len(br) \ {ix[j] : j \in 1..Len(t)} :
                        RanksBefore(br, ix[i], k)]_vars

\* a snapshot of three keys: the key inserted last has the highest count,
\* the other two tie, and the later of them is cut off
C22_Witness ==
    /\ snap.taken
    /\ Len(byRoute) = 3
    /\ byRoute[3].count = 2 /\ byRoute[1].count = 1 /\ byRoute[2].count = 1
    /\ Len(snap.topRoutes) = TOP_ROUTES
    /\ snap.topRoutes[1].route = byRoute[3].route
    /\ snap.topRoutes[2].route = byRoute[1].route

\* ----------------------------------------------------------------- C23
\* what a caller holding the snapshot reads from it
SnapshotView ==
    [stats |-> snap.stats, byRoute |-> Deref(snap.byRoute), topRoutes |-> snap.topRoutes]

\* C23: a completion recorded after getStats() changes no field of the
\* object it returned (counters, byRoute buckets, topRoutes), and getStats()
\* changes nothing in the tracker.
C23_SnapshotIsCopy ==
    [][/\ (snap.taken /\ Completed) => SnapshotView' = SnapshotView
       /\ snap' # snap => UNCHANGED <<reqStats, byRoute, completions>>]_vars
\* ----------------------------------------------------------------- C24
\* C24: a request that went through the tracker is counted exactly once
\* when it is over, however it ends, and not before its response has
\* completed; total counts these requests.
C24_ObservedExactlyOnce ==
    /\ \A q \in Requests :
          /\ rstate[q] = "closed" => seen[q] = 1
          /\ rstate[q] \in {"none", "open"} => seen[q] = 0
          /\ seen[q] <= 1
    /\ reqStats.total = Cardinality({q \in Requests : seen[q] > 0})
\* ----------------------------------------------------------------- C25
\* one completion applied to the counters, on its own
ApplyCompletion(st, c) ==
    [total        |-> st.total + 1,
     ok           |-> st.ok + (IF c.status < 400 THEN 1 ELSE 0),
     errors4xx    |-> st.errors4xx + (IF c.status \in 400..499 THEN 1 ELSE 0),
     errors5xx    |-> st.errors5xx + (IF c.status >= 500 THEN 1 ELSE 0),
     slow         |-> st.slow + (IF c.elapsed > SLOW_THRESHOLD_MS * TICKS_PER_MS THEN 1 ELSE 0),
     avgLatencyMs |-> (2 * (st.avgLatencyMs * st.total * TICKS_PER_MS + c.elapsed)
                         + (st.total + 1) * TICKS_PER_MS)
                      \div (2 * (st.total + 1) * TICKS_PER_MS)]

\* the completions applied one at a time, in completion order
RECURSIVE OneAtATime(_)
OneAtATime(cs) ==
    IF cs = <<>> THEN NoSnap.stats
    ELSE ApplyCompletion(OneAtATime(SubSeq(cs, 1, Len(cs) - 1)), cs[Len(cs)])

\* the sum of a field over the buckets of byRoute
RECURSIVE SumField(_, _)
SumField(br, f) == IF br = <<>> THEN 0 ELSE Head(br)[f] + SumField(Tail(br), f)

\* C25: with requests in flight at once and ending in any order, the
\* counters, the average and byRoute are those of the completions applied
\* one at a time in completion order; what a log listener finds during a
\* completion already holds every update of that completion; the ring holds
\* the last entries recorded, each once.
C25_SequentialConsistency ==
    /\ reqStats = OneAtATime(completions)
    /\ \A r \in {completions[i].route : i \in 1..Len(completions)} :
          BucketOf(byRoute, r) =
             {[route   |-> r,
               count   |-> Len(CompletionsOf(completions, r)),
               totalMs |-> SumElapsed(CompletionsOf(completions, r)),
               errors  |-> Len(SelectSeq(CompletionsOf(completions, r),
                                         LAMBDA c : c.status >= 400))]}
    /\ Len(byRoute) = Cardinality({completions[i].route : i \in 1..Len(completions)})
    /\ \A i \in 1..Len(observed) :
          /\ observed[i].stats = OneAtATime(SubSeq(completions, 1, observed[i].stats.total))
          /\ SumField(observed[i].byRoute, "count") = observed[i].stats.total
    /\ buffer = SubSeq(log, Len(log) - Min(Len(log), MAX_LINES) + 1, Len(log))
    /\ \A i \in 1..Len(log) : log[i].id = i

\* three requests were in flight together and ended in the reverse of the
\* order of their arrival; the first completion was logged
C25_Witness ==
    /\ rkind = <<"public", "notfound", "failed">>
    /\ \A q \in 1..3 : rstate[q] \in {"finished", "closed"}
    /\ Len(completions) = 3
    /\ completions[1].status = 500
    /\ completions[2].status = 404
    /\ completions[3].status = 200
    /\ Len(observed) = 1
    /\ reqStats.avgLatencyMs = 218

\* ----------------------------------------------------------------- C26
\* a call of the supervisor whose diagnosis call failed returns in this step
AiFailed ==
    /\ Recorded
    /\ NewestEntry.module = "AI-SUPERVISOR"
    /\ NewestEntry.level = "error"

\* the score of the last successful analysis, 50 if there was none
LastAnalysisScore == IF analyses = <<>> THEN 50 ELSE analyses[Len(analyses)].score

\* C26 as stated: a failed diagnosis call does not raise; analyzeHealth
\* returns a result flagged as error, of status unavailable, whose score is
\* the score of the last successful analysis (50 if there was none); chat
\* returns success = false; history and last score are unchanged.
C26_FailureDegrades ==
    [][AiFailed =>
          /\ ~aiResult'.raised
          /\ aiResult'.call = "analyzeHealth" =>
                /\ aiResult'.error
                /\ aiResult'.status = "indisponivel"
                /\ aiResult'.score = LastAnalysisScore
          /\ aiResult'.call = "chat" => ~aiResult'.success
          /\ UNCHANGED <<analysisHistory, lastHealthScore>>]_vars

\* C26 amended: as stated, but the score of the degraded result is 50 also
\* when the last successful analysis carried no score.
C26_FailureDegradesToKnownScore ==
    [][AiFailed =>
          /\ ~aiResult'.raised
          /\ aiResult'.call = "analyzeHealth" =>
                /\ aiResult'.error
                /\ aiResult'.status = "indisponivel"
                /\ aiResult'.score =
                      (IF LastAnalysisScore = NoScore THEN 50 ELSE LastAnalysisScore)
          /\ aiResult'.call = "chat" => ~aiResult'.success
          /\ UNCHANGED <<analysisHistory, lastHealthScore>>]_vars

\* an analysis of score 0 succeeded and the next one failed: the degraded
\* result carries the score 0
C26_Witness ==
    /\ analyses # <<>>
    /\ analyses[Len(analyses)].score = 0
    /\ aiResult.call = "analyzeHealth"
    /\ aiResult.error
    /\ aiResult.score = 0
    /\ log[Len(log)].level = "error"
\* ----------------------------------------------------------------- C27
\* a path under /api other than /api/status
NeedsToken(path) == IsPrefix(<<"/api">>, path) /\ path # StatusPath

\* C27: a request to a path under /api other than /api/status that carries
\* no token, or a token that is not API_SECRET_TOKEN, is answered 401 and
\* reaches no route handler; /health and /api/status are served without a
\* token.
C27_TokenRequired ==
    /\ (NeedsToken(authReply.path)
          /\ (authReply.provided = "" \/ authReply.provided # apiToken))
       => (authReply.status = 401 /\ authReply.handler = "none")
    /\ authReply.path \in {HealthPath, StatusPath}
       => (authReply.status = 200 /\ authReply.handler \in {"health", "status"})
\* ----------------------------------------------------------------- C28
\* the entries clearFile recorded to document a truncation
Documenting == {i \in 1..Len(log) : log[i].module = "LOGGER"}

\* C28: once the truncation and every append issued so far have completed,
\* the file holds the line of the entry that documents the last truncation
\* and no line of an entry recorded before it.
C28_DocumentedAfterTruncate ==
    (pending = <<>> /\ Documenting # {}) =>
        LET d == CHOOSE i \in Documenting : \A j \in Documenting : j <= i
        IN  /\ log[d] \in Range(file)
            /\ \A e \in Range(file) : e.id >= d
\* ----------------------------------------------------------------- C29
\* a step in which DataStore.get returned
GetReturned == Len(log') = Len(log) + 1 /\ dsReply'.op = "get"

\* C29: after set(name, data) returned true, the next get(name), with or
\* without bustCache and whatever was cached before, returns data; for names
\* of the known-dataset map, for other names and for names that end in
\* ".json".
C29_ReadAfterWrite ==
    [][(GetReturned /\ lastSet # NoSet /\ dsReply'.name = lastSet.name)
          => dsReply'.result = lastSet.data]_vars
\* ----------------------------------------------------------------- C30
\* the cache entry get(name) looks at is present and younger than the TTL
Younger(f) == cache[f].has /\ now - cache[f].ts < CACHE_TTL_MS

\* C30: get answers from the cache, without reading the disk, exactly when
\* bustCache is off and the entry of the dataset exists and is younger than
\* CACHE_TTL_MS; then it returns the cached value and changes nothing.
\* Otherwise it reads the disk: a successful read returns the data of the
\* file and replaces the entry with them and the current time; a failed read
\* (no file, invalid JSON) returns an empty array, counts one error and
\* leaves the cache as it was.
C30_TtlCache ==
    [][GetReturned =>
        LET r   == dsReply'
            f   == GetFilename(r.name)
            hit == ~r.bust /\ Younger(f)
        IN  /\ (~r.readDisk) <=> hit
            /\ hit => /\ r.result = cache[f].data
                      /\ cache' = cache
                      /\ dsCounts' = dsCounts
            /\ (~hit /\ disk[f] \in Arrays) =>
                      /\ r.result = disk[f]
                      /\ cache' = [cache EXCEPT ![f] =
                                     [has |-> TRUE, data |-> disk[f], ts |-> now]]
                      /\ dsCounts' = [dsCounts EXCEPT !.reads = @ + 1]
            /\ (~hit /\ disk[f] \notin Arrays) =>
                      /\ r.result = Empty
                      /\ cache' = cache
                      /\ dsCounts' = [dsCounts EXCEPT !.errors = @ + 1]]_vars

\* a get without bustCache found an entry aged exactly the TTL, read the
\* file again and stored its data under the current time
C30_Witness ==
    /\ dsReply.op = "get"
    /\ ~dsReply.bust
    /\ dsReply.age = CACHE_TTL_MS
    /\ dsReply.readDisk
    /\ dsReply.result \in Arrays
    /\ cache[GetFilename(dsReply.name)].ts = now
\* ----------------------------------------------------------------- C31
\* an updateItem call whose disk write failed
WriteFailed(c) == upd[c].pc \in {"awaitSet", "done"} /\ ~upd[c].wrote

\* C31: an updateItem call whose disk write failed does not return the
\* patched item, and no later get of its dataset returns the patched item
\* from the cache while the file still holds the item without the patch.
C31_UpdatePersisted ==
    [][/\ \A c \in Calls :
            (WriteFailed(c) /\ upd[c].pc = "awaitSet" /\ upd'[c].pc = "done")
               => upd'[c].result # "item"
       /\ GetReturned =>
            \A c \in Calls :
               (WriteFailed(c) /\ upd[c].pc = "done"
                  /\ upd[c].name = dsReply'.name /\ ~dsReply'.readDisk)
               => ~(/\ upd[c].id \in PatchedIds(dsReply'.result)
                    /\ upd[c].id \notin
                          PatchedIds(disk[GetFilename(upd[c].name)]))]_vars
\* ----------------------------------------------------------------- C32
\* two calls on the same dataset, for different ids that exist, whose
\* writes succeeded, the second started while the first was in progress
Overlapped(c, d) ==
    /\ c # d
    /\ upd[c].pc = "done" /\ upd[d].pc = "done"
    /\ c \in upd[d].during
    /\ upd[c].name = upd[d].name
    /\ upd[c].id # upd[d].id
    /\ upd[c].id \in {1, 2} /\ upd[d].id \in {1, 2}
    /\ upd[c].wrote /\ upd[d].wrote

\* C32: when two updateItem calls on the same dataset for two different
\* existing ids overlap, both return the item and the dataset stored
\* afterwards holds both patches.
C32_NoLostUpdate ==
    \A c, d \in Calls :
        Overlapped(c, d) =>
            /\ upd[c].result = "item" /\ upd[d].result = "item"
            /\ {upd[c].id, upd[d].id}
                   \subseteq PatchedIds(disk[SetFilename(upd[c].name)])
\* ----------------------------------------------------------------- C33
\* the last n elements of a sequence, all of them when it is shorter
LastOf(a, n) == IF Len(a) <= n THEN a ELSE SubSeq(a, Len(a) - n + 1, Len(a))

\* C33: the history holds at most HISTORY_MAX analyses, the most recent
\* successful ones in their order (a failed analysis adds nothing, the oldest
\* is dropped first); getHistory returns at most the HISTORY_SHOWN most recent
\* of them, newest first; getLastScore is the score of the most recent
\* successful analysis.
C33_RollingHistory ==
    /\ Len(analysisHistory) <= HISTORY_MAX
    /\ analysisHistory = LastOf(analyses, HISTORY_MAX)
    /\ getHistory = Reverse(LastOf(analyses, HISTORY_SHOWN))
    /\ getLastScore = IF analyses = <<>> THEN NoScore
                      ELSE analyses[Len(analyses)].score

\* more analyses succeeded than the history holds, and the last call failed
C33_Witness ==
    /\ Len(analyses) > HISTORY_MAX
    /\ Len(analysisHistory) = HISTORY_MAX
    /\ Len(getHistory) = HISTORY_SHOWN
    /\ aiResult.call = "analyzeHealth"
    /\ aiResult.error
\* ----------------------------------------------------------------- C34
\* C34: POST /api/ai/analyze-logs answers that there is no critical error
\* only when none of the ANALYZE_LIMIT most recent buffered entries has level
\* error or critical; when there are such entries the answer is a diagnosis
\* or a reported failure.
C34_NoCriticalMeansNone ==
    /\ logsAnswer.body = "noCriticalError" => logsAnswer.found = 0
    /\ (logsAnswer # NoLogsAnswer /\ logsAnswer.found > 0)
          => (logsAnswer.body = "diagnosis" \/ logsAnswer.status >= 500)
\* ----------------------------------------------------------------- C35
\* C35: the counts of the routes add up to total, and the errors of the
\* routes add up to errors4xx + errors5xx.
C35_RoutesAddUp ==
    /\ SumField(byRoute, "count") = reqStats.total
    /\ SumField(byRoute, "errors") = reqStats.errors4xx + reqStats.errors5xx

\* two routes were requested, one of them twice, and a client error and a
\* server error were answered
C35_Witness ==
    /\ Len(byRoute) >= 2
    /\ \E i \in 1..Len(byRoute) : byRoute[i].count >= 2
    /\ reqStats.errors4xx >= 1
    /\ reqStats.errors5xx >= 1
\* ----------------------------------------------------------------- C36
\* C36: every entry of the buffer has one of the five levels and the level
\* counters have exactly the five keys; POST /api/system/log with another
\* level value records the entry at level info; a POST without a message is
\* answered 400 and records no entry.
C36_LevelsAreTheFive ==
    /\ \A i \in 1..Len(buffer) : buffer[i].level \in Levels
    /\ DOMAIN stats = Levels
    /\ posted.status = 200 =>
          /\ posted.after = posted.before + 1
          /\ log[posted.after].level =
                IF posted.level \in Levels THEN posted.level ELSE "info"
    /\ (posted # NoPost /\ posted.message = Undefined) =>
          /\ posted.status = 400
          /\ posted.after = posted.before

\* a POST with a level that is none of the five was recorded
C36_Witness ==
    /\ posted.status = 200
    /\ posted.level \notin Levels \cup {Undefined}
    /\ buffer # <<>>
    /\ buffer[Len(buffer)].level = "info"
    /\ buffer[Len(buffer)].module = "FRONTEND"
====
